---- MODULE Spec2Model ----
(***************************************************************************)
(* A model of the fractal forecasting front- and back-end glue:            *)
(*   - the SPX routes of fractal.spx.routes.ts (focus-pack, replay,        *)
(*     hybrid, consensus, strategy),                                       *)
(*   - the useFocusPack hook (abortable fetch with a cache),               *)
(*   - the RiskBox component (risk level, position size, blockers).        *)
(* Each subsystem has its own specification over the shared variables.     *)
(*                                                                         *)
(* Units.  Returns are in basis points (0.02 = 200).  Position sizes are   *)
(* in hundredths (1.0 = 100).  Preset multipliers are in tenths            *)
(* (0.5 = 5).  A JavaScript number that may be NaN is a record             *)
(* [nan |-> BOOLEAN, v |-> Int].                                           *)
(***************************************************************************)
EXTENDS Integers, Sequences, FiniteSets, TLC

VARIABLES
    \* ---- GET /api/fractal/spx/consensus ----
    cPc,          \* "building" | "done": position of the handler
    cOutcome,     \* per horizon index: what buildSpxFocusPack(h) yields
    cTaskDone,    \* indices of the horizon tasks that have settled
    cOrder,       \* the order in which the tasks settled (event-loop order)
    results,      \* Promise.all's result array, filled as tasks settle
    cLocals,      \* longCount, shortCount, holdCount of the handler
    cResponse,    \* the reply, once sent
    \* ---- GET /api/fractal/spx, /spx/replay, /spx/hybrid, /spx/strategy ----
    rPc,          \* "received" | "building" | "done": position of the handler
    rReq,         \* the request: route and query parameters
    rBuild,       \* what buildSpxFocusPack yields for this request
    rBuildCalls,  \* how often the handler has invoked buildSpxFocusPack
    rReply,       \* the reply, once sent
    \* ---- RiskBox ----
    rbProps,      \* the props of the current render
    showAdvanced, \* useState(false)
    rbView,       \* what the current render shows
    \* ---- useFocusPack ----
    hMounted,        \* the component using the hook is mounted
    hSymbol,         \* the symbol argument of the hook
    hFocus,          \* the focus argument of the current render
    phaseId,         \* useState(initialPhaseId)
    asOf,            \* useState(initialAsOf)
    mode,            \* useState('auto')
    data,            \* useState(null)
    loading,         \* useState(true)
    error,           \* useState(null)
    cache,           \* cacheRef.current: cache key -> payload
    abortController, \* abortControllerRef.current: id of its request, 0 for null
    requests,        \* fetchFocusPack invocations awaiting their fetch
    nextId,          \* id of the next request
    effectDue,       \* the [fetchFocusPack] effect has to run (again)
    focusEffectDue,  \* the [focus] effect has to run with it
    staleCommit,     \* a request that was not the latest wrote data, error or cache
    \* ---- FractalHybridChart ----
    chMounted,        \* the chart is mounted
    chSymbol,         \* the symbol prop
    chFocus,          \* the focus prop
    focusPack,        \* the focusPack prop
    chart,            \* useState(null): the chart endpoint's answer
    chartLoading,     \* useState(true): loading
    chartFetch,       \* "none" | "pending" | "settled": the chart fetch
    alive,            \* the alive flag of the latest chart effect
    chartStale,       \* superseded chart fetches in flight (their alive is false)
    selectedMatchId,  \* useState(null)
    customReplayPack, \* useState(null)
    replayLoading,    \* useState(false)
    replayRequests,   \* replay-pack fetches in flight
    chNextId,         \* id of the next replay-pack fetch
    \* ---- AgreementSection ----
    agDivergence,     \* the divergence prop: rmse and corr
    agShown,          \* the level each variant of the section shows
    \* ---- useFractalOverlay ----
    ovMounted,         \* the component using the hook is mounted
    ovSymbol,          \* the symbol argument
    ovFocus,           \* the focus argument of the current render
    ovData,            \* useState(null): data
    ovLoading,         \* useState(false): loading
    ovErr,             \* useState(null): err
    ovSelectedMatchId, \* useState(null): selectedMatchId
    ovRequests,        \* overlay fetches awaiting their response
    ovNextId,          \* id of the next overlay fetch
    ovFetchDue,        \* the [symbol, horizonDays, API_URL] effect has to run
    ovResetDue,        \* the [horizonDays] effect has to run with it
    \* ---- ForwardPerformanceCompact ----
    fpMounted,         \* the component is mounted
    fpInputs,          \* the props symbol, mode, horizon, execution
    fpData,            \* useState(null): data
    fpLoading,         \* useState(false): loading
    fpError,           \* useState(null): error
    fpRequests,        \* forward-equity fetches awaiting their response
    fpNextId,          \* id of the next forward-equity fetch
    \* ---- StrategySummary ----
    ssMounted,         \* the component is mounted
    ssInputs,          \* the props symbol, mode
    ssData,            \* useState(null): data
    ssLoading,         \* useState(true): loading
    ssRequests,        \* strategy fetches awaiting their response
    ssNextId           \* id of the next strategy fetch

consensusVars == <<cPc, cOutcome, cTaskDone, cOrder, results, cLocals, cResponse>>
routeVars == <<rPc, rReq, rBuild, rBuildCalls, rReply>>

riskBoxVars == <<rbProps, showAdvanced, rbView>>

hookVars == <<hMounted, hSymbol, hFocus, phaseId, asOf, mode, data, loading, error, cache,
              abortController, requests, nextId, effectDue, focusEffectDue,
              staleCommit>>

chartVars == <<chMounted, chSymbol, chFocus, focusPack, chart, chartLoading, chartFetch,
               alive, chartStale, selectedMatchId, customReplayPack, replayLoading, replayRequests,
               chNextId>>

agreementVars == <<agDivergence, agShown>>

overlayVars == <<ovMounted, ovSymbol, ovFocus, ovData, ovLoading, ovErr, ovSelectedMatchId,
                 ovRequests, ovNextId, ovFetchDue, ovResetDue>>

sectionVars == <<fpMounted, fpInputs, fpData, fpLoading, fpError, fpRequests, fpNextId,
                 ssMounted, ssInputs, ssData, ssLoading, ssRequests, ssNextId>>

vars == <<consensusVars, routeVars, riskBoxVars, hookVars, chartVars, agreementVars, overlayVars, sectionVars>>

\* What each subsystem's steps leave alone: the other subsystems.
consensusFrame == <<routeVars, riskBoxVars, hookVars, chartVars, agreementVars, overlayVars, sectionVars>>
routeFrame == <<consensusVars, riskBoxVars, hookVars, chartVars, agreementVars, overlayVars, sectionVars>>
riskBoxFrame == <<consensusVars, routeVars, hookVars, chartVars, agreementVars, overlayVars, sectionVars>>
hookFrame == <<consensusVars, routeVars, riskBoxVars, chartVars, agreementVars, overlayVars, sectionVars>>
chartFrame == <<consensusVars, routeVars, riskBoxVars, hookVars, agreementVars, overlayVars, sectionVars>>
agreementFrame == <<consensusVars, routeVars, riskBoxVars, hookVars, chartVars, overlayVars, sectionVars>>
overlayFrame == <<consensusVars, routeVars, riskBoxVars, hookVars, chartVars, agreementVars, sectionVars>>
sectionFrame == <<consensusVars, routeVars, riskBoxVars, hookVars, chartVars, agreementVars, overlayVars>>

---------------------------------------------------------------------------
(* Helpers *)

Max2(a, b) == IF a >= b THEN a ELSE b
Min2(a, b) == IF a <= b THEN a ELSE b

---------------------------------------------------------------------------
(* GET /api/fractal/spx/consensus *)

\* const horizons: SpxHorizonKey[] = ['7d', '14d', '30d', '90d'];
horizons == <<"7d", "14d", "30d", "90d">>

HorizonIdx == 1..Len(horizons)

\* The build failed (buildSpxFocusPack threw) for a reason other than missing
\* history.
BuildFailed ==
    [ok |-> FALSE, medianReturn |-> 0, hitRate |-> 0, reliability |-> 0,
     error |-> "connection lost"]

\* The build failed for lack of historical data.
BuildFailedNoData ==
    [BuildFailed EXCEPT !.error = "INSUFFICIENT_DATA: need more candles"]

\* Focus packs a build may return: pack.overlay.stats.medianReturn (bp),
\* pack.overlay.stats.hitRate (%), pack.diagnostics.reliability (%).
\* The values straddle both dead-band edges; one successful pack is all zero.
PackSamples ==
    { [ok |-> TRUE, medianReturn |-> 201,  hitRate |-> 60, reliability |-> 70,
        error |-> ""],
      [ok |-> TRUE, medianReturn |-> 200,  hitRate |-> 55, reliability |-> 65,
        error |-> ""],
      [ok |-> TRUE, medianReturn |-> 0,    hitRate |-> 0,  reliability |-> 0,
        error |-> ""],
      [ok |-> TRUE, medianReturn |-> -200, hitRate |-> 45, reliability |-> 50,
        error |-> ""],
      [ok |-> TRUE, medianReturn |-> -201, hitRate |-> 40, reliability |-> 55,
        error |-> ""] }

BuildOutcomes == PackSamples \cup {BuildFailed, BuildFailedNoData}

\* The dead band: pack.overlay.stats.medianReturn > 0.02 / < -0.02.
LongThreshold == 200
ShortThreshold == -200

\* A dead band with inclusive edges (>=, <=), for comparison.
HorizonActionGe(medianReturn) ==
    IF medianReturn >= LongThreshold THEN "LONG"
    ELSE IF medianReturn <= ShortThreshold THEN "SHORT"
    ELSE "HOLD"

HorizonAction(medianReturn) ==
    IF medianReturn > LongThreshold THEN "LONG"
    ELSE IF medianReturn < ShortThreshold THEN "SHORT"
    ELSE "HOLD"

\* The entry the try branch returns for a built pack.
SuccessEntry(h, pack) ==
    [ horizon      |-> h,
      medianReturn |-> pack.medianReturn,
      hitRate      |-> pack.hitRate,
      action       |-> HorizonAction(pack.medianReturn),
      confidence   |-> pack.reliability ]

\* A catch branch whose placeholder carried full confidence, for comparison.
FailureEntryFullConfidence(h) ==
    [ horizon |-> h, medianReturn |-> 0, hitRate |-> 0,
      action |-> "HOLD", confidence |-> 100 ]

\* The entry the catch branch returns for a failed build.
FailureEntry(h) ==
    [ horizon |-> h, medianReturn |-> 0, hitRate |-> 0,
      action |-> "HOLD", confidence |-> 0 ]

\* Results pushed in completion order instead, for comparison.
SettleInCompletionOrder(res, i, entry) ==
    LET k == Cardinality(DOMAIN res) + 1
    IN  [j \in DOMAIN res \cup {k} |-> IF j = k THEN entry ELSE res[j]]

\* A failure that voided the entries settled before it, for comparison.
SettleAtVoiding(res, i, entry) ==
    IF entry.confidence = 0 /\ entry.action = "HOLD"
    THEN [j \in DOMAIN res \cup {i} |->
            [entry EXCEPT !.horizon = IF j = i THEN entry.horizon ELSE res[j].horizon]]
    ELSE [j \in DOMAIN res \cup {i} |-> IF j = i THEN entry ELSE res[j]]

\* Promise.all: the value of the i-th promise lands at index i.
SettleAt(res, i, entry) ==
    [j \in DOMAIN res \cup {i} |-> IF j = i THEN entry ELSE res[j]]

\* actions.filter(a => a === act).length
CountAction(res, act) == Cardinality({i \in DOMAIN res : res[i].action = act})

\* A quorum of two instead of three, for comparison.
ConsensusActionQuorumTwo(longCount, shortCount) ==
    IF longCount >= 2 THEN "LONG"
    ELSE IF shortCount >= 2 THEN "SHORT"
    ELSE "HOLD"

\* let consensusAction = 'HOLD'; if (longCount >= 3) ...; else if (shortCount >= 3) ...
ConsensusAction(longCount, shortCount) ==
    IF longCount >= 3 THEN "LONG"
    ELSE IF shortCount >= 3 THEN "SHORT"
    ELSE "HOLD"

\* A strength that ignored the HOLD votes, for comparison.
ConsensusStrengthNoHold(longCount, shortCount, holdCount) ==
    [num |-> Max2(longCount, shortCount), den |-> Len(horizons)]

\* Math.max(longCount, shortCount, holdCount) / horizons.length, as a fraction
ConsensusStrength(longCount, shortCount, holdCount) ==
    [num |-> Max2(Max2(longCount, shortCount), holdCount), den |-> Len(horizons)]

NoLocals == [longCount |-> 0, shortCount |-> 0, holdCount |-> 0]
NoResponse == [ok |-> FALSE, action |-> "NONE", strength |-> [num |-> 0, den |-> 1],
               horizonBreakdown |-> << >>]

ConsensusInit ==
    /\ cPc = "building"
    /\ cOutcome \in [HorizonIdx -> BuildOutcomes]
    /\ cTaskDone = {}
    /\ cOrder = << >>
    /\ results = << >>
    /\ cLocals = NoLocals
    /\ cResponse = NoResponse

\* One horizon's build resolves: the try branch returns its entry.
BuildResolve(i) ==
    /\ cPc = "building"
    /\ i \notin cTaskDone
    /\ cOutcome[i].ok
    /\ results' = SettleAt(results, i, SuccessEntry(horizons[i], cOutcome[i]))
    /\ cTaskDone' = cTaskDone \cup {i}
    /\ cOrder' = Append(cOrder, i)
    /\ UNCHANGED <<cPc, cOutcome, cLocals, cResponse>>
    /\ UNCHANGED consensusFrame

\* One horizon's build throws: the catch branch returns the placeholder.
BuildReject(i) ==
    /\ cPc = "building"
    /\ i \notin cTaskDone
    /\ ~cOutcome[i].ok
    /\ results' = SettleAt(results, i, FailureEntry(horizons[i]))
    /\ cTaskDone' = cTaskDone \cup {i}
    /\ cOrder' = Append(cOrder, i)
    /\ UNCHANGED <<cPc, cOutcome, cLocals, cResponse>>
    /\ UNCHANGED consensusFrame

\* Promise.all has resolved: count, decide, reply.
ConsensusRespond ==
    /\ cPc = "building"
    /\ cTaskDone = HorizonIdx
    /\ LET longCount  == CountAction(results, "LONG")
           shortCount == CountAction(results, "SHORT")
           holdCount  == CountAction(results, "HOLD")
       IN  /\ cLocals' = [longCount |-> longCount, shortCount |-> shortCount,
                          holdCount |-> holdCount]
           /\ cResponse' =
                [ ok |-> TRUE,
                  action |-> ConsensusAction(longCount, shortCount),
                  strength |-> ConsensusStrength(longCount, shortCount, holdCount),
                  horizonBreakdown |-> [k \in 1..Cardinality(DOMAIN results) |-> results[k]] ]
    /\ cPc' = "done"
    /\ UNCHANGED <<cOutcome, cTaskDone, cOrder, results>>
    /\ UNCHANGED consensusFrame

\* The handler is not running.
ConsensusIdle ==
    /\ cPc = "idle"
    /\ cOutcome = << >>
    /\ cTaskDone = {}
    /\ cOrder = << >>
    /\ results = << >>
    /\ cLocals = NoLocals
    /\ cResponse = NoResponse

ConsensusNext ==
    \/ \E i \in HorizonIdx : BuildResolve(i)
    \/ \E i \in HorizonIdx : BuildReject(i)
    \/ ConsensusRespond

---------------------------------------------------------------------------
(* GET /api/fractal/spx, /spx/replay, /spx/hybrid, /spx/strategy *)

\* A query parameter that the request does not carry.
Absent == "<absent>"

\* JavaScript's `param || dflt` on a string parameter: undefined and '' are falsy.
OrDefault(param, dflt) == IF param \in {Absent, ""} THEN dflt ELSE param

NaN == [nan |-> TRUE, v |-> 0]
Num(n) == [nan |-> FALSE, v |-> n]

\* The horizons the engine supports (spx-horizon.config).
isValidSpxHorizon(focus) == focus \in {"7d", "14d", "30d", "90d", "180d", "365d"}

FocusParams == {Absent, "", "30d", "365d", "30", "bogus"}
ModeParams == {Absent, "compact"}
MatchIndexParams == {Absent, "0", "1", "7", "-1", "abc"}
PresetParams == {Absent, "CONSERVATIVE", "BALANCED", "AGGRESSIVE", "TURBO"}

\* parseInt(s, 10) on the sampled parameters.
ParseInt(s) ==
    CASE s = "0" -> Num(0)
      [] s = "1" -> Num(1)
      [] s = "7" -> Num(7)
      [] s = "-1" -> Num(-1)
      [] OTHER -> NaN

\* arr[i] is defined exactly for an integer index inside the array.
HasIndex(arr, i) == ~i.nan /\ i.v >= 0 /\ i.v < Len(arr)

\* Focus packs buildSpxFocusPack may return, by the fields the routes read:
\* the sizing decision's raw size and blockers, overlay.matches.  The lengths
\* of aftermathNormalized differ, so that the paths can be told apart.
NoMatch == << >>
OneMatch == << [id |-> "1987-10-01", aftermathLen |-> 30] >>
TwoMatches == << [id |-> "2008-09-15", aftermathLen |-> 29],
                 [id |-> "2020-02-20", aftermathLen |-> 28] >>

RoutePack(rawSize, blockers, matches) ==
    [ ok |-> TRUE, error |-> "", rawSize |-> rawSize, blockers |-> blockers,
      matches |-> matches ]

RoutePackSamples ==
    { RoutePack(80, << >>, TwoMatches),
      RoutePack(66, << >>, OneMatch),
      RoutePack(20, << >>, NoMatch),
      RoutePack(0, << >>, OneMatch),
      RoutePack(50, <<"LOW_CONFIDENCE">>, TwoMatches),
      RoutePack(100, <<"VOL_CRISIS", "NO_SIGNAL">>, NoMatch) }

RouteBuildFailure(message) ==
    [ ok |-> FALSE, error |-> message, rawSize |-> 0, blockers |-> << >>,
      matches |-> << >> ]

RouteBuildFailures ==
    { RouteBuildFailure("INSUFFICIENT_DATA: need more candles"),
      RouteBuildFailure("connection lost") }

\* error.message?.includes('INSUFFICIENT_DATA')
IncludesInsufficientData(message) == message = "INSUFFICIENT_DATA: need more candles"

\* adaptSpxToFractal: the contract fields the routes read.  The final size is
\* forced to 0 by any blocker; the blockers are reported as noTradeReasons.
adaptSpxToFractal(pack) ==
    [ sizeMultiplier |-> IF pack.blockers # << >> THEN 0 ELSE pack.rawSize,
      noTradeReasons |-> pack.blockers,
      topMatches |-> [k \in DOMAIN pack.matches |-> pack.matches[k].id] ]

\* presetMultipliers[preset]: undefined for a key the object does not hold.
PresetMultiplier(preset) ==
    CASE preset = "CONSERVATIVE" -> [defined |-> TRUE, v |-> 5]
      [] preset = "BALANCED" -> [defined |-> TRUE, v |-> 10]
      [] preset = "AGGRESSIVE" -> [defined |-> TRUE, v |-> 15]
      [] OTHER -> [defined |-> FALSE, v |-> 0]

\* A preset applied as an offset to the size instead of a factor, for comparison.
AdjustedSizeAdditive(baseSize, preset) ==
    LET m == PresetMultiplier(preset)
    IN  IF ~m.defined THEN NaN
        ELSE Num(Min2(100, Max2(0, baseSize + 10 * (m.v - 10))))

\* Math.min(1, baseSize * presetMultipliers[preset]); a number times undefined
\* is NaN, and Math.min with NaN is NaN.
AdjustedSize(baseSize, preset) ==
    LET m == PresetMultiplier(preset)
    IN  IF ~m.defined THEN NaN ELSE Num(Min2(100, (baseSize * m.v) \div 10))

NoReply ==
    [ status |-> 0, ok |-> FALSE, error |-> "", hint |-> FALSE, focus |-> "",
      compact |-> FALSE, preset |-> "", positionSize |-> Num(0),
      reasoning |-> << >>, selectedMatch |-> "", replayLen |-> 0 ]

\* reply.code(status).send({ ok: false, error })
ErrorReply(status, message) ==
    [NoReply EXCEPT !.status = status, !.error = message]

\* A handler's plain `return {ok: true, ...}`.
OkReply(focus) == [NoReply EXCEPT !.status = 200, !.ok = TRUE, !.focus = focus]

Request(route, focus, queryMode, matchIndex, preset) ==
    [ route |-> route, focus |-> focus, mode |-> queryMode,
      matchIndex |-> matchIndex, preset |-> preset ]

\* Each route reads its own query parameters only.
Requests ==
    {Request("focus-pack", f, m, Absent, Absent) : f \in FocusParams, m \in ModeParams}
    \cup {Request("replay", f, Absent, i, Absent) : f \in FocusParams, i \in MatchIndexParams}
    \cup {Request("hybrid", f, Absent, Absent, Absent) : f \in FocusParams}
    \cup {Request("strategy", f, Absent, Absent, p) : f \in FocusParams, p \in PresetParams}

\* const focus = query.focus || '30d';
FocusOf(req) == OrDefault(req.focus, "30d")

\* A hybrid route that did not validate its focus, for comparison.
FocusRejectedExceptHybrid(req) ==
    req.route # "hybrid" /\ ~isValidSpxHorizon(FocusOf(req))

\* if (!isValidSpxHorizon(focus)) return reply.code(400)..., in every route
FocusRejected(req) == ~isValidSpxHorizon(FocusOf(req))

RoutesInit ==
    /\ rPc = "received"
    /\ rReq \in Requests
    /\ rBuild \in RoutePackSamples \cup RouteBuildFailures
    /\ rBuildCalls = 0
    /\ rReply = NoReply

\* The handler up to its first await: default and validate the focus, then
\* either reject or enter the try block and invoke buildSpxFocusPack.
RouteValidate ==
    /\ rPc = "received"
    /\ IF FocusRejected(rReq)
       THEN /\ rReply' = ErrorReply(400, "Invalid horizon")
            /\ rPc' = "done"
            /\ UNCHANGED rBuildCalls
       ELSE /\ rBuildCalls' = rBuildCalls + 1
            /\ rPc' = "building"
            /\ UNCHANGED rReply
    /\ UNCHANGED <<rReq, rBuild>>
    /\ UNCHANGED routeFrame

\* GET /spx: compact or full contract.
FocusPackReply(req, pack) ==
    [OkReply(FocusOf(req)) EXCEPT !.compact = (OrDefault(req.mode, "full") = "compact")]

\* A replay that fell back to the first match for a missing index, for
\* comparison.
ReplayReplyFallback(req, pack) ==
    LET contract   == adaptSpxToFractal(pack)
        matchIndex == ParseInt(OrDefault(req.matchIndex, "0"))
        index      == IF HasIndex(contract.topMatches, matchIndex) THEN matchIndex
                      ELSE Num(0)
    IN  IF ~HasIndex(contract.topMatches, index)
        THEN ErrorReply(404, "Match not found")
        ELSE [OkReply(FocusOf(req)) EXCEPT
                !.selectedMatch = contract.topMatches[index.v + 1],
                !.replayLen = pack.matches[index.v + 1].aftermathLen]

\* GET /spx/replay: 404 when topMatches[matchIndex] is undefined.
ReplayReply(req, pack) ==
    LET contract   == adaptSpxToFractal(pack)
        matchIndex == ParseInt(OrDefault(req.matchIndex, "0"))
    IN  IF ~HasIndex(contract.topMatches, matchIndex)
        THEN ErrorReply(404, "Match not found")
        ELSE [OkReply(FocusOf(req)) EXCEPT
                !.selectedMatch = contract.topMatches[matchIndex.v + 1],
                !.replayLen = IF HasIndex(pack.matches, matchIndex)
                              THEN pack.matches[matchIndex.v + 1].aftermathLen
                              ELSE 0]

\* GET /spx/hybrid
HybridReply(req, pack) == OkReply(FocusOf(req))

\* GET /spx/strategy
StrategyReply(req, pack) ==
    LET contract == adaptSpxToFractal(pack)
        preset   == OrDefault(req.preset, "BALANCED")
    IN  [OkReply(FocusOf(req)) EXCEPT
            !.preset = preset,
            !.positionSize = AdjustedSize(contract.sizeMultiplier, preset),
            !.reasoning = IF Len(contract.noTradeReasons) > 0
                          THEN contract.noTradeReasons
                          ELSE <<"Signals aligned for position">>]

\* The build resolved: the rest of the try block.
RouteBuildResolve ==
    /\ rPc = "building"
    /\ rBuild.ok
    /\ rReply' = CASE rReq.route = "focus-pack" -> FocusPackReply(rReq, rBuild)
                   [] rReq.route = "replay" -> ReplayReply(rReq, rBuild)
                   [] rReq.route = "hybrid" -> HybridReply(rReq, rBuild)
                   [] rReq.route = "strategy" -> StrategyReply(rReq, rBuild)
    /\ rPc' = "done"
    /\ UNCHANGED <<rReq, rBuild, rBuildCalls>>
    /\ UNCHANGED routeFrame

\* The catch blocks: GET /spx answers 503 with a hint on INSUFFICIENT_DATA and
\* 500 otherwise; the other routes answer 500 always.
CatchReply(req, message) ==
    IF req.route = "focus-pack" /\ IncludesInsufficientData(message)
    THEN [ErrorReply(503, message) EXCEPT !.hint = TRUE]
    ELSE ErrorReply(500, message)

\* The build threw: the catch block.
RouteBuildReject ==
    /\ rPc = "building"
    /\ ~rBuild.ok
    /\ rReply' = CatchReply(rReq, rBuild.error)
    /\ rPc' = "done"
    /\ UNCHANGED <<rReq, rBuild, rBuildCalls>>
    /\ UNCHANGED routeFrame

\* No request is being handled.
RoutesIdle ==
    /\ rPc = "idle"
    /\ rReq = Request("", "", "", "", "")
    /\ rBuild = RouteBuildFailure("")
    /\ rBuildCalls = 0
    /\ rReply = NoReply

RoutesNext ==
    \/ RouteValidate
    \/ RouteBuildResolve
    \/ RouteBuildReject

---------------------------------------------------------------------------
(* RiskBox *)

\* A number prop that may be undefined.
Undefined == [defined |-> FALSE, v |-> 0]
Defined(n) == [defined |-> TRUE, v |-> n]

\* The sizing prop: absent, or a SizingDecision (finalSize in hundredths); a
\* decision with blockers has size 0 and mode NO_TRADE.
Sizing(finalSize, sizeLabel, blockers, sizingMode) ==
    [ present |-> TRUE, finalSize |-> finalSize, sizeLabel |-> sizeLabel,
      blockers |-> blockers, mode |-> sizingMode ]

NoSizing ==
    [ present |-> FALSE, finalSize |-> 0, sizeLabel |-> "NONE",
      blockers |-> << >>, mode |-> Absent ]

SizingSamples ==
    { NoSizing,
      Sizing(0, "NONE", <<"LOW_CONFIDENCE">>, "NO_TRADE"),
      Sizing(0, "NONE", <<"VOL_CRISIS", "NO_SIGNAL">>, "NO_TRADE"),
      Sizing(0, "NONE", << >>, "NO_TRADE"),
      Sizing(10, "MICRO", << >>, "CONSERVATIVE"),
      Sizing(30, "PARTIAL", << >>, "NORMAL"),
      Sizing(60, "FULL", << >>, "NORMAL"),
      Sizing(100, "FULL", << >>, Absent) }

ConstitutionSamples == {Absent, "OK", "BLOCK"}
DriftSamples == {Absent, "OK", "WARNING", "CRITICAL"}
VolRegimeSamples == {Absent, "LOW", "HIGH", "CRISIS", "EXPANSION"}
\* scenario.avgMaxDD as transformSpxToFocusPack passes it on:
\* spxData.risk?.maxDD_WF || 0, the percent figure as it is (3.9 for 3.9%).
\* maxDD_WF is in tenths of a percent, the result in hundredths.
SpxScenarioAvgMaxDD(maxDD_WF) ==
    IF ~maxDD_WF.defined THEN Defined(0) ELSE Defined(maxDD_WF.v * 10)

\* scenario.avgMaxDD, in hundredths: a signed fraction straddling -0.15 and
\* -0.25, a drawdown reported as a positive fraction, and the SPX figures for
\* drawdowns of 3.9% and 30%.
AvgMaxDDSamples ==
    { Undefined, Defined(0), Defined(-15), Defined(-16), Defined(-25), Defined(-26),
      Defined(30), SpxScenarioAvgMaxDD(Defined(39)), SpxScenarioAvgMaxDD(Defined(300)) }

Props(sizing, constitution, driftStatus, volRegime, avgMaxDD) ==
    [ sizing |-> sizing, constitution |-> constitution, driftStatus |-> driftStatus,
      volRegime |-> volRegime, avgMaxDD |-> avgMaxDD ]

\* avgMaxDD < limit; a comparison with undefined is false.
LessThan(x, limit) == x.defined /\ x.v < limit

\* RiskBox: riskLevel from the volatility regime and scenario.avgMaxDD.
RiskLevel(volRegime, avgMaxDD) ==
    IF volRegime = "CRISIS" \/ LessThan(avgMaxDD, -25) THEN "CRISIS"
    ELSE IF volRegime = "HIGH" \/ volRegime = "EXPANSION" \/ LessThan(avgMaxDD, -15)
         THEN "ELEVATED"
    ELSE "NORMAL"

\* sizing?.blockers?.length > 0 || sizing?.mode === 'NO_TRADE'
HasBlockers(sizing) ==
    sizing.present /\ (Len(sizing.blockers) > 0 \/ sizing.mode = "NO_TRADE")

\* Blockers: allBlockers = sizing.blockers, plus CONSTITUTION_BLOCK, plus DRIFT_CRITICAL.
AllBlockers(blockers, constitution, driftStatus) ==
    blockers
      \o (IF constitution = "BLOCK" THEN <<"CONSTITUTION_BLOCK">> ELSE << >>)
      \o (IF driftStatus = "CRITICAL" THEN <<"DRIFT_CRITICAL">> ELSE << >>)

\* PositionSizing: the tone of the size display.
SizeTone(finalSize) ==
    IF finalSize <= 0 THEN "red"
    ELSE IF finalSize < 25 THEN "amber"
    ELSE IF finalSize < 50 THEN "blue"
    ELSE "emerald"

\* PositionSizing: finalSize > 0 ? `${(finalSize * 100).toFixed(0)}%` : 'NO TRADE'
PositionShown(finalSize) ==
    IF finalSize > 0 THEN [text |-> "PERCENT", percent |-> finalSize]
    ELSE [text |-> "NO TRADE", percent |-> 0]

\* One render of RiskBox: the header, the position and the blockers panel.
\* PositionSizing renders nothing without sizing; Blockers renders only under
\* hasBlockers and only when allBlockers is not empty.
RenderRiskBox(props) ==
    LET all == AllBlockers(props.sizing.blockers, props.constitution, props.driftStatus)
    IN  [ riskLevel |-> RiskLevel(props.volRegime, props.avgMaxDD),
          modeBadge |-> IF props.sizing.present THEN props.sizing.mode ELSE Absent,
          sizingShown |-> props.sizing.present,
          position |-> IF props.sizing.present
                       THEN PositionShown(props.sizing.finalSize)
                       ELSE [text |-> "", percent |-> 0],
          sizeTone |-> IF props.sizing.present
                       THEN SizeTone(props.sizing.finalSize) ELSE "",
          blockersShown |-> HasBlockers(props.sizing) /\ Len(all) > 0,
          blockersList |-> IF HasBlockers(props.sizing) THEN all ELSE << >> ]

\* The first render: no data has been loaded yet.
RiskBoxInit ==
    /\ rbProps = Props(NoSizing, Absent, Absent, Absent, Undefined)
    /\ showAdvanced = FALSE
    /\ rbView = RenderRiskBox(rbProps)

\* The parent re-renders the box with one prop changed.
RiskBoxRerender ==
    /\ \/ \E s \in SizingSamples : rbProps' = [rbProps EXCEPT !.sizing = s]
       \/ \E c \in ConstitutionSamples : rbProps' = [rbProps EXCEPT !.constitution = c]
       \/ \E d \in DriftSamples : rbProps' = [rbProps EXCEPT !.driftStatus = d]
       \/ \E v \in VolRegimeSamples : rbProps' = [rbProps EXCEPT !.volRegime = v]
       \/ \E a \in AvgMaxDDSamples : rbProps' = [rbProps EXCEPT !.avgMaxDD = a]
    /\ rbProps' # rbProps
    /\ rbView' = RenderRiskBox(rbProps')
    /\ UNCHANGED showAdvanced
    /\ UNCHANGED riskBoxFrame

\* onToggleAdvanced: setShowAdvanced(!showAdvanced), then a render.
ToggleAdvanced ==
    /\ showAdvanced' = ~showAdvanced
    /\ rbView' = RenderRiskBox(rbProps)
    /\ UNCHANGED rbProps
    /\ UNCHANGED riskBoxFrame

\* The box is not mounted.
RiskBoxIdle ==
    /\ rbProps = Props(NoSizing, Absent, Absent, Absent, Undefined)
    /\ showAdvanced = FALSE
    /\ rbView = RenderRiskBox(rbProps)

RiskBoxNext ==
    \/ RiskBoxRerender
    \/ ToggleAdvanced

---------------------------------------------------------------------------
(* useFocusPack *)

\* How many fetchFocusPack invocations a behaviour holds.
MaxRequests == 7

Null == "<null>"
\* An argument that the caller does not pass.
NotPassed == "<undefined>"

SymbolSamples == {"BTC", "SPX"}
FocusSamples == {"7d", "30d"}
PhaseIdSamples == {Null, "phase-1"}
AsOfSamples == {Null, "2024-01-05"}

\* `${symbol}_${focus}_${currentPhaseId || 'all'}_${currentAsOf || 'latest'}`
CacheKey(symbol, focus, currentPhaseId, currentAsOf) ==
    << symbol, focus,
       IF currentPhaseId = Null THEN "all" ELSE currentPhaseId,
       IF currentAsOf = Null THEN "latest" ELSE currentAsOf >>

NoPayload == [key |-> << >>, req |-> 0, format |-> ""]
\* The focus pack a response carries: whose key it answers, which request
\* fetched it (a later fetch of the same key may bring newer content), and
\* whether it is result.focusPack or the transformed result.data.
Payload(key, req, format) == [key |-> key, req |-> req, format |-> format]

\* The bodies a 2xx response may have: { ok, data }, { ok, focusPack }, other.
ResponseShapes == {"data", "focusPack", "other"}

\* symbol === 'SPX' && result.ok && result.data, else result.ok && result.focusPack
AcceptedAs(symbol, shape) ==
    IF symbol = "SPX" /\ shape = "data" THEN "transformed"
    ELSE IF shape = "focusPack" THEN "focusPack"
    ELSE "rejected"

\* A fetchFocusPack that left the previous request running, for comparison.
AbortNothing(reqs, ctrl) == reqs

\* if (abortControllerRef.current) abortControllerRef.current.abort();
AbortPrevious(reqs, ctrl) ==
    {IF r.id = ctrl THEN [r EXCEPT !.aborted = TRUE] ELSE r : r \in reqs}

\* A cache that held one payload for all its keys, for comparison.
CachePutShared(c, key, payload) == [k \in DOMAIN c \cup {key} |-> payload]

\* cacheRef.current[cacheKey] = payload
CachePut(c, key, payload) ==
    [k \in DOMAIN c \cup {key} |-> IF k = key THEN payload ELSE c[k]]

\* fetchFocusPack up to its await: abort the previous request, take a new
\* controller, show the cached payload of an unfiltered key, set loading,
\* clear error, issue the fetch.
FetchFocusPack(focus, overridePhaseId, overrideAsOf) ==
    LET currentPhaseId == IF overridePhaseId # NotPassed THEN overridePhaseId ELSE phaseId
        currentAsOf    == IF overrideAsOf # NotPassed THEN overrideAsOf ELSE asOf
        cacheKey       == CacheKey(hSymbol, focus, currentPhaseId, currentAsOf)
    IN  /\ nextId <= MaxRequests
        /\ requests' = AbortPrevious(requests, abortController)
                         \cup {[id |-> nextId, key |-> cacheKey, aborted |-> FALSE]}
        /\ abortController' = nextId
        /\ nextId' = nextId + 1
        /\ data' = IF cacheKey \in DOMAIN cache /\ currentPhaseId = Null
                   THEN cache[cacheKey] ELSE data
        /\ loading' = TRUE
        /\ error' = Null
        /\ UNCHANGED <<cache, staleCommit>>

\* A fetch that was aborted rejects before React handles any later event.
NoAbortPending == \A q \in requests : ~q.aborted

\* State after the first render: phaseId and asOf hold options.initialPhaseId
\* and options.initialAsOf (null by default), mode is 'auto'; the effects have
\* not run yet.
HookInit ==
    /\ hMounted = TRUE
    /\ hSymbol \in SymbolSamples
    /\ hFocus = "30d"
    /\ phaseId \in PhaseIdSamples
    /\ asOf \in AsOfSamples
    /\ mode = "auto"
    /\ data = NoPayload
    /\ loading = TRUE
    /\ error = Null
    /\ cache = << >>
    /\ abortController = 0
    /\ requests = {}
    /\ nextId = 1
    /\ effectDue = TRUE
    /\ focusEffectDue = TRUE
    /\ staleCommit = FALSE

\* Effects without the [focus] effect's reset of phaseId, for comparison.
HookRunEffectsNoReset ==
    /\ hMounted
    /\ effectDue
    /\ FetchFocusPack(hFocus, NotPassed, NotPassed)
    /\ phaseId' = phaseId
    /\ effectDue' = FALSE
    /\ focusEffectDue' = FALSE
    /\ UNCHANGED <<hMounted, hSymbol, hFocus, asOf, mode>>
    /\ UNCHANGED hookFrame

\* The effects of a commit run before React handles any later event (the
\* other actions wait for them), in the order of their definition: the cleanup
\* of the previous [fetchFocusPack] effect aborts and fetchFocusPack() is
\* called with the state of this render; then, after a change of focus (and on
\* mount), the [focus] effect resets phaseId, and if that changes phaseId a
\* further render follows, whose [fetchFocusPack] effect is due again.
HookRunEffects ==
    /\ hMounted
    /\ effectDue
    /\ FetchFocusPack(hFocus, NotPassed, NotPassed)
    /\ phaseId' = IF focusEffectDue THEN Null ELSE phaseId
    /\ effectDue' = (focusEffectDue /\ phaseId # Null)
    /\ focusEffectDue' = FALSE
    /\ UNCHANGED <<hMounted, hSymbol, hFocus, asOf, mode>>
    /\ UNCHANGED hookFrame

\* The parent renders the hook with another focus: both effects become due.
ChangeFocus(f) ==
    /\ hMounted
    /\ ~effectDue
    /\ NoAbortPending
    /\ f # hFocus
    /\ hFocus' = f
    /\ effectDue' = TRUE
    /\ focusEffectDue' = TRUE
    /\ UNCHANGED <<hMounted, hSymbol, phaseId, asOf, mode, data, loading, error, cache,
                   abortController, requests, nextId, staleCommit>>
    /\ UNCHANGED hookFrame

\* setPhaseId: setPhaseIdState(newPhaseId); fetchFocusPack(newPhaseId).
FilterByPhase(newPhaseId) ==
    /\ hMounted
    /\ ~effectDue
    /\ NoAbortPending
    /\ FetchFocusPack(hFocus, newPhaseId, NotPassed)
    /\ phaseId' = newPhaseId
    /\ effectDue' = (effectDue \/ newPhaseId # phaseId)
    /\ UNCHANGED <<hMounted, hSymbol, hFocus, asOf, mode, focusEffectDue>>
    /\ UNCHANGED hookFrame

\* setAsOf: setAsOfState(newAsOf); setMode(...); fetchFocusPack(undefined, newAsOf).
SetAsOf(newAsOf) ==
    /\ hMounted
    /\ ~effectDue
    /\ NoAbortPending
    /\ FetchFocusPack(hFocus, NotPassed, newAsOf)
    /\ asOf' = newAsOf
    /\ mode' = IF newAsOf # Null THEN "simulation" ELSE "auto"
    /\ effectDue' = (effectDue \/ newAsOf # asOf)
    /\ UNCHANGED <<hMounted, hSymbol, hFocus, phaseId, focusEffectDue>>
    /\ UNCHANGED hookFrame

\* The setMode the hook returns.
SetMode(m) ==
    /\ hMounted
    /\ ~effectDue
    /\ NoAbortPending
    /\ m # mode
    /\ mode' = m
    /\ UNCHANGED <<hMounted, hSymbol, hFocus, phaseId, asOf, data, loading, error, cache,
                   abortController, requests, nextId, effectDue, focusEffectDue, staleCommit>>
    /\ UNCHANGED hookFrame

\* refetch: fetchFocusPack().
Refetch ==
    /\ hMounted
    /\ ~effectDue
    /\ NoAbortPending
    /\ FetchFocusPack(hFocus, NotPassed, NotPassed)
    /\ UNCHANGED <<hMounted, hSymbol, hFocus, phaseId, asOf, mode, effectDue, focusEffectDue>>
    /\ UNCHANGED hookFrame

\* The fetch of r resolved with a response the hook accepts: cache it, show it.
ResponseSuccess(r, shape) ==
    /\ ~effectDue
    /\ NoAbortPending
    /\ ~r.aborted
    /\ AcceptedAs(hSymbol, shape) # "rejected"
    /\ requests' = requests \ {r}
    /\ cache' = CachePut(cache, r.key, Payload(r.key, r.id, AcceptedAs(hSymbol, shape)))
    /\ data' = Payload(r.key, r.id, AcceptedAs(hSymbol, shape))
    /\ error' = Null
    /\ loading' = FALSE
    /\ staleCommit' = (staleCommit \/ r.id # abortController)
    /\ UNCHANGED <<hMounted, hSymbol, hFocus, phaseId, asOf, mode, abortController, nextId,
                   effectDue, focusEffectDue>>
    /\ UNCHANGED hookFrame

FailureMessages == {"HTTP 500", "Invalid response"}

\* The fetch of r failed, or its response was not ok or not a focus pack:
\* show the message, keep data only if the key has a cached payload.
ResponseFailure(r, message) ==
    /\ ~effectDue
    /\ NoAbortPending
    /\ ~r.aborted
    /\ message = "Invalid response" => \E shape \in ResponseShapes :
                                          AcceptedAs(hSymbol, shape) = "rejected"
    /\ requests' = requests \ {r}
    /\ error' = message
    /\ data' = IF r.key \in DOMAIN cache THEN data ELSE NoPayload
    /\ loading' = FALSE
    /\ staleCommit' = (staleCommit \/ r.id # abortController)
    /\ UNCHANGED <<hMounted, hSymbol, hFocus, phaseId, asOf, mode, cache, abortController,
                   nextId, effectDue, focusEffectDue>>
    /\ UNCHANGED hookFrame

\* The fetch of an aborted r rejects with AbortError: the catch returns without
\* touching data or error, and the finally block clears loading.
AbortSettles(r) ==
    /\ ~effectDue
    /\ r.aborted
    /\ requests' = requests \ {r}
    /\ loading' = IF hMounted THEN FALSE ELSE loading
    /\ UNCHANGED <<hMounted, hSymbol, hFocus, phaseId, asOf, mode, data, error, cache,
                   abortController, nextId, effectDue, focusEffectDue, staleCommit>>
    /\ UNCHANGED hookFrame

\* The component unmounts: the effect's cleanup aborts the current request,
\* and React discards the hook's state and refs.
Unmount ==
    /\ hMounted
    /\ hMounted' = FALSE
    /\ requests' = AbortPrevious(requests, abortController)
    /\ effectDue' = FALSE
    /\ focusEffectDue' = FALSE
    /\ hFocus' = "30d" /\ phaseId' = Null /\ asOf' = Null /\ mode' = "auto"
    /\ data' = NoPayload /\ loading' = TRUE /\ error' = Null /\ cache' = << >>
    /\ UNCHANGED <<hSymbol, abortController, nextId, staleCommit>>
    /\ UNCHANGED hookFrame

\* The hook is not in use.
HookIdle ==
    /\ hMounted = FALSE
    /\ hSymbol = "BTC"
    /\ hFocus = "30d"
    /\ phaseId = Null
    /\ asOf = Null
    /\ mode = "auto"
    /\ data = NoPayload
    /\ loading = TRUE
    /\ error = Null
    /\ cache = << >>
    /\ abortController = 0
    /\ requests = {}
    /\ nextId = 1
    /\ effectDue = FALSE
    /\ focusEffectDue = FALSE
    /\ staleCommit = FALSE

HookNext ==
    \/ HookRunEffects
    \/ \E f \in FocusSamples : ChangeFocus(f)
    \/ \E p \in PhaseIdSamples : FilterByPhase(p)
    \/ \E a \in AsOfSamples : SetAsOf(a)
    \/ \E m \in {"auto", "simulation"} : SetMode(m)
    \/ Refetch
    \/ \E r \in requests, shape \in ResponseShapes : ResponseSuccess(r, shape)
    \/ \E r \in requests, m \in FailureMessages : ResponseFailure(r, m)
    \/ \E r \in requests : AbortSettles(r)
    \/ Unmount

---------------------------------------------------------------------------
(* transformSpxToFocusPack and FractalHybridChart *)

\* How many replay-pack fetches a behaviour holds.
MaxReplayRequests == 3

\* How many superseded chart fetches are in flight at a time.
MaxStaleChartFetches == 1

\* JavaScript's `x || 0` on a number that may be undefined (or NaN).
OrZero(x) == IF ~x.defined \/ x.v = 0 THEN Defined(0) ELSE x

\* A historical match: aftermathNormalized holds returns in percent; a match
\* without the field has the empty sequence.
Match(id, aftermathNormalized) ==
    [id |-> id, aftermathNormalized |-> aftermathNormalized]

NoPrimary == Match("", << >>)

\* Percentile bands (chartData.bands / overlay.distributionSeries), in percent.
Bands(p10, p25, p50, p75, p90) ==
    [present |-> TRUE, p10 |-> p10, p25 |-> p25, p50 |-> p50, p75 |-> p75, p90 |-> p90]

NoBands ==
    [present |-> FALSE, p10 |-> << >>, p25 |-> << >>, p50 |-> << >>, p75 |-> << >>,
     p90 |-> << >>]

\* { p10: [], p25: [], p50: [], p75: [], p90: [] }
EmptyBands == Bands(<< >>, << >>, << >>, << >>, << >>)

BandSamples == { NoBands, Bands(<<-4, -9>>, <<-2, -3>>, <<1, 2>>, <<3, 6>>, <<5, 11>>) }

\* SPX results (FractalSignalContract), by the fields the transformer reads for
\* the overlay: explain.topMatches, diagnostics.similarity (percent), the
\* dominant horizon's expectedReturn (percent), decision.confidence (percent),
\* chartData.bands.
SpxData(hasTopMatches, topMatches, similarity, expectedReturn, confidence, bands) ==
    [ hasTopMatches  |-> hasTopMatches,
      topMatches     |-> topMatches,
      similarity     |-> similarity,
      expectedReturn |-> expectedReturn,
      confidence     |-> confidence,
      bands          |-> bands ]

SpxTopMatchSamples ==
    { <<FALSE, << >> >>, <<TRUE, << >> >>,
      <<TRUE, <<"1987-10-01">> >>, <<TRUE, <<"2008-09-15", "2020-02-20">> >> }

SpxFigureSamples ==
    { <<Undefined, Undefined, Undefined>>,
      <<Defined(0), Defined(0), Defined(0)>>,
      <<Defined(82), Defined(4), Defined(61)>> }

SpxDataSamples ==
    { SpxData(t[1], t[2], f[1], f[2], f[3], b) :
        t \in SpxTopMatchSamples, f \in SpxFigureSamples, b \in BandSamples }

\* What the chart reads of a focus pack.  overlay.stats are numbers that may
\* be undefined; primarySelection.primaryMatch may be missing (NoPrimary);
\* divergenceOf names the match the pack's divergence was computed against.
FocusPack(symbol, matches, primaryMatch, stats, distributionSeries, divergenceOf) ==
    [ present            |-> TRUE,
      symbol             |-> symbol,
      matches            |-> matches,
      primaryMatch       |-> primaryMatch,
      stats              |-> stats,
      distributionSeries |-> distributionSeries,
      divergenceOf       |-> divergenceOf ]

Stats(matchCount, avgSimilarity, medianReturn, hitRate) ==
    [ matchCount |-> matchCount, avgSimilarity |-> avgSimilarity,
      medianReturn |-> medianReturn, hitRate |-> hitRate ]

\* focusPack = null
NoFocusPack ==
    [FocusPack("", << >>, NoPrimary, Stats(Undefined, Undefined, Undefined, Undefined),
               NoBands, "")
       EXCEPT !.present = FALSE]

\* transformSpxToFocusPack: overlay.matches from explain.topMatches (without an
\* aftermath), overlay.stats with `|| 0` on every figure, distributionSeries
\* from chartData.bands or empty sequences; no primarySelection.  The pack
\* always carries a divergence object, built from reliability.driftScore and
\* the diagnostics and not from any match ("diagnostics").
transformSpxToFocusPack(spxData) ==
    FocusPack(
        "SPX",
        IF spxData.hasTopMatches
        THEN [k \in DOMAIN spxData.topMatches |-> Match(spxData.topMatches[k], << >>)]
        ELSE << >>,
        NoPrimary,
        Stats(IF spxData.hasTopMatches THEN Defined(Len(spxData.topMatches)) ELSE Defined(0),
              OrZero(spxData.similarity),
              OrZero(spxData.expectedReturn),
              OrZero(spxData.confidence)),
        IF spxData.bands.present THEN spxData.bands ELSE EmptyBands,
        "diagnostics")

\* Focus packs of the BTC endpoint, passed through by useFocusPack as they are.
BtcAftermath == <<3, -2, 7>>

BtcPackSamples ==
    { FocusPack("BTC",
                <<Match("m1", BtcAftermath), Match("m2", BtcAftermath), Match("m3", BtcAftermath)>>,
                Match("m2", BtcAftermath),
                Stats(Defined(3), Defined(80), Defined(5), Defined(66)),
                Bands(<<-4>>, <<-2>>, <<1>>, <<3>>, <<5>>), "m2"),
      FocusPack("BTC",
                <<Match("m1", BtcAftermath), Match("m2", BtcAftermath)>>,
                NoPrimary,
                Stats(Defined(2), Defined(75), Defined(-3), Defined(50)),
                Bands(<<-4>>, <<-2>>, <<1>>, <<3>>, <<5>>), "m1"),
      FocusPack("BTC",
                <<Match("m3", BtcAftermath)>>,
                NoPrimary,
                Stats(Defined(1), Defined(70), Defined(2), Defined(100)),
                NoBands, "m3"),
      FocusPack("BTC", << >>, NoPrimary,
                Stats(Defined(0), Undefined, Undefined, Undefined),
                EmptyBands, "") }

\* The focus packs the parent may pass to a chart of this symbol.
FocusPacksFor(symbol) ==
    IF symbol = "SPX"
    THEN {transformSpxToFocusPack(d) : d \in SpxDataSamples}
    ELSE BtcPackSamples

\* The chart endpoint's answers: a body with candles (their number), a body
\* without the candles field (0).
ChartSamples == {[loaded |-> TRUE, candles |-> 365], [loaded |-> TRUE, candles |-> 0]}
NoChart == [loaded |-> FALSE, candles |-> 0]

\* chart?.candles?.length
HasCandles(c) == c.loaded /\ c.candles > 0

\* A replay pack of the replay-pack endpoint for one match; the chart reads
\* matchId, replayPath and divergence.
ReplayPack(matchId, focus) ==
    [present |-> TRUE, matchId |-> matchId, focus |-> focus, replayPathLen |-> 31,
     divergenceOf |-> matchId]

NoReplayPack ==
    [present |-> FALSE, matchId |-> "", focus |-> "", replayPathLen |-> 0,
     divergenceOf |-> ""]

\* series?.[lastIdx] ?? dflt, with lastIdx counted from 0.
ValueOr(series, lastIdx, dflt) ==
    IF lastIdx + 1 \in DOMAIN series
    THEN [defaulted |-> FALSE, v |-> series[lastIdx + 1]]
    ELSE [defaulted |-> TRUE, v |-> dflt]

NoForecast ==
    [ present |-> FALSE,
      distribution7d |-> [p10 |-> [defaulted |-> FALSE, v |-> 0],
                          p25 |-> [defaulted |-> FALSE, v |-> 0],
                          p50 |-> [defaulted |-> FALSE, v |-> 0],
                          p75 |-> [defaulted |-> FALSE, v |-> 0],
                          p90 |-> [defaulted |-> FALSE, v |-> 0]],
      stats |-> Stats(Undefined, Undefined, Undefined, Undefined) ]

\* const forecast = useMemo(...): null without candles or focus pack, else the
\* last point of each percentile band, with -0.15, -0.05, 0, 0.05, 0.15 where
\* the band has no such point.
Forecast(c, pack) ==
    IF ~HasCandles(c) \/ ~pack.present THEN NoForecast
    ELSE LET ds      == pack.distributionSeries
             lastIdx == (IF Len(ds.p50) = 0 THEN 1 ELSE Len(ds.p50)) - 1
         IN  [ present |-> TRUE,
               distribution7d |-> [p10 |-> ValueOr(ds.p10, lastIdx, -15),
                                   p25 |-> ValueOr(ds.p25, lastIdx, -5),
                                   p50 |-> ValueOr(ds.p50, lastIdx, 0),
                                   p75 |-> ValueOr(ds.p75, lastIdx, 5),
                                   p90 |-> ValueOr(ds.p90, lastIdx, 15)],
               stats |-> pack.stats ]

NoReplay == [shown |-> FALSE, id |-> "", selectionReason |-> "", divergenceOf |-> ""]

\* focusPack?.primarySelection?.primaryMatch || focusPack?.overlay?.matches?.[0]
BackendPrimary(pack) ==
    IF pack.primaryMatch # NoPrimary THEN pack.primaryMatch
    ELSE IF Len(pack.matches) > 0 THEN pack.matches[1]
    ELSE NoPrimary

\* const primaryMatch = useMemo(...): the replay line the canvas draws.
PrimaryMatch(c, pack, custom) ==
    IF ~HasCandles(c) THEN NoReplay
    ELSE IF custom.present
    THEN [shown |-> TRUE, id |-> custom.matchId, selectionReason |-> "User selected",
          divergenceOf |-> custom.divergenceOf]
    ELSE LET match == BackendPrimary(pack)
         IN  IF Len(match.aftermathNormalized) = 0 THEN NoReplay
             ELSE [shown |-> TRUE, id |-> match.id, selectionReason |-> "primary",
                   divergenceOf |-> pack.divergenceOf]

\* focusPack?.primarySelection?.primaryMatch?.id || matches[0]?.id
PrimaryMatchId(pack) == BackendPrimary(pack).id

\* The match picker: rendered once the chart has loaded and there is more than
\* one match; selectedId = selectedMatchId || primaryMatchId.
Picker(c, isLoading, pack, selected) ==
    IF isLoading \/ ~HasCandles(c) \/ Len(pack.matches) <= 1
    THEN [shown |-> FALSE, selectedId |-> "", primaryId |-> "", chips |-> {}]
    ELSE [ shown |-> TRUE,
           selectedId |-> IF selected # Null THEN selected ELSE PrimaryMatchId(pack),
           primaryId |-> PrimaryMatchId(pack),
           chips |-> {pack.matches[k].id : k \in DOMAIN pack.matches} ]

ChartInit ==
    /\ chMounted = TRUE
    /\ chSymbol \in SymbolSamples
    /\ chFocus = "30d"
    /\ focusPack = NoFocusPack
    /\ chart = NoChart
    /\ chartLoading = TRUE
    /\ chartFetch = "none"
    /\ alive = FALSE
    /\ chartStale = 0
    /\ selectedMatchId = Null
    /\ customReplayPack = NoReplayPack
    /\ replayLoading = FALSE
    /\ replayRequests = {}
    /\ chNextId = 1

\* The effects of the first commit: the chart fetch is issued; the [focus]
\* effect clears a selection that is still clear.
ChartMount ==
    /\ chMounted
    /\ chartFetch = "none"
    /\ chartFetch' = "pending"
    /\ alive' = TRUE
    /\ chartLoading' = TRUE
    /\ selectedMatchId' = Null
    /\ customReplayPack' = NoReplayPack
    /\ UNCHANGED <<chMounted, chSymbol, chFocus, focusPack, chart, replayLoading,
                   replayRequests, chNextId>>
    /\ UNCHANGED chartStale
    /\ UNCHANGED chartFrame

\* The chart fetch resolved: if (alive) { setChart(chartData); setLoading(false) }
ChartResolve(c) ==
    /\ chartFetch = "pending"
    /\ chartFetch' = "settled"
    /\ chart' = IF alive THEN c ELSE chart
    /\ chartLoading' = IF alive THEN FALSE ELSE chartLoading
    /\ UNCHANGED <<chMounted, chSymbol, chFocus, focusPack, alive, selectedMatchId,
                   customReplayPack, replayLoading, replayRequests, chNextId>>
    /\ UNCHANGED chartStale
    /\ UNCHANGED chartFrame

\* The chart fetch failed: if (alive) setLoading(false)
ChartReject ==
    /\ chartFetch = "pending"
    /\ chartFetch' = "settled"
    /\ chartLoading' = IF alive THEN FALSE ELSE chartLoading
    /\ UNCHANGED <<chMounted, chSymbol, chFocus, focusPack, chart, alive, selectedMatchId,
                   customReplayPack, replayLoading, replayRequests, chNextId>>
    /\ UNCHANGED chartStale
    /\ UNCHANGED chartFrame

\* The parent passes another symbol: the cleanup of the [symbol, API_URL]
\* effect clears the alive flag of the fetch in flight, and the effect runs
\* again with a flag of its own: setLoading(true) and a new chart fetch.
\* Symbol changes are followed in a chart that has no focus pack and no
\* selection yet.
ChartChangeSymbol(s) ==
    /\ chMounted
    /\ chartFetch # "none"
    /\ focusPack = NoFocusPack
    /\ chNextId = 1
    /\ s # chSymbol
    /\ chartFetch = "pending" => chartStale < MaxStaleChartFetches
    /\ chSymbol' = s
    /\ chartStale' = IF chartFetch = "pending" THEN chartStale + 1 ELSE chartStale
    /\ chartFetch' = "pending"
    /\ alive' = TRUE
    /\ chartLoading' = TRUE
    /\ UNCHANGED <<chMounted, chFocus, focusPack, chart, selectedMatchId, customReplayPack,
                   replayLoading, replayRequests, chNextId>>
    /\ UNCHANGED chartFrame

\* A superseded chart fetch resolved or failed: the alive flag of its effect
\* is false, so neither setChart nor setLoading is called.
ChartStaleSettles ==
    /\ chartStale > 0
    /\ chartStale' = chartStale - 1
    /\ LET staleAlive == FALSE
       IN  /\ chart' = IF staleAlive THEN NoChart ELSE chart
           /\ chartLoading' = IF staleAlive THEN FALSE ELSE chartLoading
    /\ UNCHANGED <<chMounted, chSymbol, chFocus, focusPack, chartFetch, alive,
                   selectedMatchId, customReplayPack, replayLoading, replayRequests,
                   chNextId>>
    /\ UNCHANGED chartFrame

\* The parent passes another focus pack (a refetch of useFocusPack arrived).
FocusPackArrives(pack) ==
    /\ chMounted
    /\ pack # focusPack
    /\ focusPack' = pack
    /\ UNCHANGED <<chMounted, chSymbol, chFocus, chart, chartLoading, chartFetch, chartStale, alive,
                   selectedMatchId, customReplayPack, replayLoading, replayRequests,
                   chNextId>>
    /\ UNCHANGED chartFrame

\* The parent passes another focus: the [focus] effect resets the selection.
ChartChangeFocus(f) ==
    /\ chMounted
    /\ chartFetch # "none"
    /\ f # chFocus
    /\ chFocus' = f
    /\ selectedMatchId' = Null
    /\ customReplayPack' = NoReplayPack
    /\ UNCHANGED <<chMounted, chSymbol, focusPack, chart, chartLoading, chartFetch, chartStale, alive,
                   replayLoading, replayRequests, chNextId>>
    /\ UNCHANGED chartFrame

\* handleMatchSelect, from a click on a chip of the match picker: nothing for
\* the match already selected; else select it and fetch its replay pack.
HandleMatchSelect(matchId) ==
    /\ chMounted
    /\ chNextId <= MaxReplayRequests
    /\ matchId \in Picker(chart, chartLoading, focusPack, selectedMatchId).chips
    /\ matchId # selectedMatchId
    /\ selectedMatchId' = matchId
    /\ replayLoading' = TRUE
    /\ replayRequests' = replayRequests \cup
                            {[id |-> chNextId, matchId |-> matchId, focus |-> chFocus]}
    /\ chNextId' = chNextId + 1
    /\ UNCHANGED <<chMounted, chSymbol, chFocus, focusPack, chart, chartLoading, chartFetch, chartStale,
                   alive, customReplayPack>>
    /\ UNCHANGED chartFrame

\* A replay-pack fetch resolved: if (data.ok && data.replayPack)
\* setCustomReplayPack(data.replayPack); finally setReplayLoading(false).
ReplayResolve(r, hasPack) ==
    /\ replayRequests' = replayRequests \ {r}
    /\ customReplayPack' = IF chMounted /\ hasPack THEN ReplayPack(r.matchId, r.focus)
                           ELSE customReplayPack
    /\ replayLoading' = IF chMounted THEN FALSE ELSE replayLoading
    /\ UNCHANGED <<chMounted, chSymbol, chFocus, focusPack, chart, chartLoading, chartFetch, chartStale,
                   alive, selectedMatchId, chNextId>>
    /\ UNCHANGED chartFrame

\* A replay-pack fetch failed: the catch logs; finally setReplayLoading(false).
ReplayReject(r) ==
    /\ replayRequests' = replayRequests \ {r}
    /\ replayLoading' = IF chMounted THEN FALSE ELSE replayLoading
    /\ UNCHANGED <<chMounted, chSymbol, chFocus, focusPack, chart, chartLoading, chartFetch, chartStale,
                   alive, selectedMatchId, customReplayPack, chNextId>>
    /\ UNCHANGED chartFrame

\* The chart unmounts: the cleanup clears alive; React discards the state.
ChartUnmount ==
    /\ chMounted
    /\ chartFetch # "none"
    /\ chMounted' = FALSE
    /\ alive' = FALSE
    /\ chFocus' = "30d" /\ focusPack' = NoFocusPack /\ chart' = NoChart
    /\ chartLoading' = TRUE /\ selectedMatchId' = Null
    /\ customReplayPack' = NoReplayPack /\ replayLoading' = FALSE
    /\ UNCHANGED <<chSymbol, chartFetch, chartStale, replayRequests, chNextId>>
    /\ UNCHANGED chartFrame

\* No chart is rendered.
ChartIdle ==
    /\ chMounted = FALSE
    /\ chSymbol = "BTC"
    /\ chFocus = "30d"
    /\ focusPack = NoFocusPack
    /\ chart = NoChart
    /\ chartLoading = TRUE
    /\ chartFetch = "none"
    /\ alive = FALSE
    /\ chartStale = 0
    /\ selectedMatchId = Null
    /\ customReplayPack = NoReplayPack
    /\ replayLoading = FALSE
    /\ replayRequests = {}
    /\ chNextId = 1

ChartNext ==
    \/ ChartMount
    \/ \E c \in ChartSamples : ChartResolve(c)
    \/ ChartReject
    \/ \E s \in SymbolSamples : ChartChangeSymbol(s)
    \/ ChartStaleSettles
    \/ \E pack \in FocusPacksFor(chSymbol) \cup {NoFocusPack} : FocusPackArrives(pack)
    \/ \E f \in FocusSamples : ChartChangeFocus(f)
    \/ \E m \in {"m1", "m2", "m3", "2008-09-15", "2020-02-20"} : HandleMatchSelect(m)
    \/ \E r \in replayRequests, hasPack \in BOOLEAN : ReplayResolve(r, hasPack)
    \/ \E r \in replayRequests : ReplayReject(r)
    \/ ChartUnmount

---------------------------------------------------------------------------
(* AgreementSection: the full variant and the compact variant *)

\* A JavaScript value destructured from divergence: a number, undefined or
\* null.  rmse is in tenths of a percent (5 = 50), corr in hundredths
\* (0.7 = 70).
JsNumber(n) == [kind |-> "number", v |-> n]
JsUndefined == [kind |-> "undefined", v |-> 0]
JsNull == [kind |-> "null", v |-> 0]

\* x <= n: undefined converts to NaN and compares false, null converts to 0.
JsLe(x, n) == x.kind # "undefined" /\ x.v <= n
\* x >= n
JsGe(x, n) == x.kind # "undefined" /\ x.v >= n

RmseSamples == {JsNumber(n) : n \in {0, 49, 50, 51, 149, 150, 151, 400}}
                  \cup {JsUndefined, JsNull}
CorrSamples == {JsNumber(n) : n \in {-50, 0, 39, 40, 41, 69, 70, 71, 100}}
                  \cup {JsUndefined, JsNull}

DivergenceSamples == {[rmse |-> r, corr |-> c] : r \in RmseSamples, c \in CorrSamples}

\* The thresholds of getAgreementLevel: rmse 5 and 15, corr 0.7 and 0.4.
StrongRmse == 50
StrongCorr == 70
ModerateRmse == 150
ModerateCorr == 40

\* A level with exclusive thresholds (<, >), for comparison.
getAgreementLevelStrict(rmse, corr) ==
    IF JsLe(rmse, StrongRmse - 1) /\ JsGe(corr, StrongCorr + 1) THEN "Strong"
    ELSE IF JsLe(rmse, ModerateRmse - 1) /\ JsGe(corr, ModerateCorr + 1) THEN "Moderate"
    ELSE "Weak"

\* getAgreementLevel of the full section.
getAgreementLevel(rmse, corr) ==
    IF JsLe(rmse, StrongRmse) /\ JsGe(corr, StrongCorr) THEN "Strong"
    ELSE IF JsLe(rmse, ModerateRmse) /\ JsGe(corr, ModerateCorr) THEN "Moderate"
    ELSE "Weak"

\* getAgreementLevel of the compact section.
getAgreementLevelCompact(rmse, corr) ==
    IF JsLe(rmse, StrongRmse) /\ JsGe(corr, StrongCorr) THEN "Strong"
    ELSE IF JsLe(rmse, ModerateRmse) /\ JsGe(corr, ModerateCorr) THEN "Moderate"
    ELSE "Weak"

NothingShown == [rendered |-> FALSE, full |-> "", compact |-> ""]

\* What the two sections show for a divergence.
RenderAgreement(d) ==
    [ rendered |-> TRUE,
      full     |-> getAgreementLevel(d.rmse, d.corr),
      compact  |-> getAgreementLevelCompact(d.rmse, d.corr) ]

AgreementInit ==
    /\ agDivergence \in DivergenceSamples
    /\ agShown = NothingShown

\* The first render of the section.
AgreementRender ==
    /\ ~agShown.rendered
    /\ agShown' = RenderAgreement(agDivergence)
    /\ UNCHANGED agDivergence
    /\ UNCHANGED agreementFrame

\* The summary panel passes another divergence.
AgreementRerender(d) ==
    /\ agShown.rendered
    /\ d # agDivergence
    /\ agDivergence' = d
    /\ agShown' = RenderAgreement(d)
    /\ UNCHANGED agreementFrame

\* No section is rendered.
AgreementIdle ==
    /\ agDivergence = [rmse |-> JsUndefined, corr |-> JsUndefined]
    /\ agShown = NothingShown

AgreementNext ==
    \/ AgreementRender
    \/ \E d \in DivergenceSamples : AgreementRerender(d)

---------------------------------------------------------------------------
(* useFractalOverlay *)

\* How many overlay fetches a behaviour holds.
MaxOverlayLoads == 2

\* The focus values a caller passes: the supported horizons, a string with
\* another number, a string without digits.
OverlayFocusSamples == {"7d", "14d", "30d", "90d", "180d", "365d", "1y", "max"}

\* focusToDays: the first run of digits of the focus, 30 if there is none.
focusToDays(focus) ==
    CASE focus = "7d" -> 7
      [] focus = "14d" -> 14
      [] focus = "30d" -> 30
      [] focus = "90d" -> 90
      [] focus = "180d" -> 180
      [] focus = "365d" -> 365
      [] focus = "1y" -> 1
      [] OTHER -> 30

\* The window range the matching engine supports.
MinWindowLen == 30
MaxWindowLen == 90

\* A window length equal to the horizon, for comparison.
MatchWindowLenUncapped(horizonDays) == horizonDays

\* const matchWindowLen = Math.min(90, Math.max(30, horizonDays));
MatchWindowLen(horizonDays) == Min2(MaxWindowLen, Max2(MinWindowLen, horizonDays))

\* The query string of the overlay request.
OverlayUrl(symbol, horizonDays) ==
    [ symbol        |-> symbol,
      horizon       |-> horizonDays,
      windowLen     |-> MatchWindowLen(horizonDays),
      displayWindow |-> horizonDays,
      topK          |-> 10,
      aftermathDays |-> horizonDays ]

\* Overlay responses, by their matches.
OverlayData(matches) == [present |-> TRUE, matches |-> matches]
NoOverlayData == [present |-> FALSE, matches |-> << >>]

OverlayDataSamples ==
    { OverlayData(<< >>), OverlayData(<<"m1", "m2">>), OverlayData(<<"m2", "m3">>) }

OverlayFailureMessages == {"overlay 500", "Failed to fetch"}

OverlayInit ==
    /\ ovMounted = TRUE
    /\ ovSymbol \in SymbolSamples
    /\ ovFocus \in {"30d", "365d"}
    /\ ovData = NoOverlayData
    /\ ovLoading = FALSE
    /\ ovErr = Null
    /\ ovSelectedMatchId = Null
    /\ ovRequests = {}
    /\ ovNextId = 1
    /\ ovFetchDue = TRUE
    /\ ovResetDue = TRUE

\* The effects of a commit, which React runs before it handles any later
\* event: the cleanup of the previous fetch effect clears
\* its alive flag; the [horizonDays] effect resets the selection; the fetch
\* effect sets loading, clears err and issues the request.  Its callbacks
\* close over the selectedMatchId of the render that ran the effect.
OverlayRunEffects ==
    /\ ovMounted
    /\ ovFetchDue
    /\ ovNextId <= MaxOverlayLoads
    /\ ovRequests' = {[r EXCEPT !.alive = FALSE] : r \in ovRequests}
                       \cup {[ id |-> ovNextId,
                               focus |-> ovFocus,
                               url |-> OverlayUrl(ovSymbol, focusToDays(ovFocus)),
                               alive |-> TRUE,
                               selectedMatchId |-> ovSelectedMatchId ]}
    /\ ovNextId' = ovNextId + 1
    /\ ovLoading' = TRUE
    /\ ovErr' = Null
    /\ ovSelectedMatchId' = IF ovResetDue THEN Null ELSE ovSelectedMatchId
    /\ ovFetchDue' = FALSE
    /\ ovResetDue' = FALSE
    /\ UNCHANGED <<ovMounted, ovSymbol, ovFocus, ovData>>
    /\ UNCHANGED overlayFrame

\* The caller renders the hook with another focus: with another horizonDays
\* both effects become due.
OverlayChangeFocus(f) ==
    /\ ovMounted
    /\ ~ovFetchDue
    /\ ovNextId <= MaxOverlayLoads
    /\ f # ovFocus
    /\ ovFocus' = f
    /\ ovFetchDue' = (focusToDays(f) # focusToDays(ovFocus))
    /\ ovResetDue' = (focusToDays(f) # focusToDays(ovFocus))
    /\ UNCHANGED <<ovMounted, ovSymbol, ovData, ovLoading, ovErr, ovSelectedMatchId,
                   ovRequests, ovNextId>>
    /\ UNCHANGED overlayFrame

\* selectMatch(id): setSelectedMatchId(id), id being one of the matches shown.
SelectMatch(id) ==
    /\ ovMounted
    /\ ~ovFetchDue
    /\ \E k \in DOMAIN ovData.matches : ovData.matches[k] = id
    /\ id # ovSelectedMatchId
    /\ ovSelectedMatchId' = id
    /\ UNCHANGED <<ovMounted, ovSymbol, ovFocus, ovData, ovLoading, ovErr, ovRequests,
                   ovNextId, ovFetchDue, ovResetDue>>
    /\ UNCHANGED overlayFrame

\* setMatchIndex(idx): select the match at idx of the data, if there is one.
SetMatchIndex(idx) ==
    /\ ovMounted
    /\ ~ovFetchDue
    /\ idx + 1 \in DOMAIN ovData.matches
    /\ ovData.matches[idx + 1] # ovSelectedMatchId
    /\ ovSelectedMatchId' = ovData.matches[idx + 1]
    /\ UNCHANGED <<ovMounted, ovSymbol, ovFocus, ovData, ovLoading, ovErr, ovRequests,
                   ovNextId, ovFetchDue, ovResetDue>>
    /\ UNCHANGED overlayFrame

\* The fetch of r resolved with json: nothing if the effect was cleaned up;
\* else setData(json), auto-select the first match if none was selected (in
\* the effect's render) or the selected one is not among the matches, and
\* clear loading.
OverlayResolve(r, json) ==
    /\ ~ovFetchDue
    /\ ovRequests' = ovRequests \ {r}
    /\ IF ~r.alive
       THEN UNCHANGED <<ovData, ovSelectedMatchId, ovLoading>>
       ELSE /\ ovData' = json
            /\ ovLoading' = FALSE
            /\ LET stillExists ==
                     /\ r.selectedMatchId # Null
                     /\ \E k \in DOMAIN json.matches : json.matches[k] = r.selectedMatchId
               IN  ovSelectedMatchId' =
                      IF Len(json.matches) > 0 /\ ~stillExists
                      THEN json.matches[1] ELSE ovSelectedMatchId
    /\ UNCHANGED <<ovMounted, ovSymbol, ovFocus, ovErr, ovNextId, ovFetchDue, ovResetDue>>
    /\ UNCHANGED overlayFrame

\* The fetch of r failed or its response was not ok: setErr(message) and
\* clear loading, unless the effect was cleaned up.
OverlayReject(r, message) ==
    /\ ~ovFetchDue
    /\ ovRequests' = ovRequests \ {r}
    /\ ovErr' = IF r.alive THEN message ELSE ovErr
    /\ ovLoading' = IF r.alive THEN FALSE ELSE ovLoading
    /\ UNCHANGED <<ovMounted, ovSymbol, ovFocus, ovData, ovSelectedMatchId, ovNextId,
                   ovFetchDue, ovResetDue>>
    /\ UNCHANGED overlayFrame

\* The component unmounts: the cleanup clears alive; React discards the state.
OverlayUnmount ==
    /\ ovMounted
    /\ ovMounted' = FALSE
    /\ ovRequests' = {[r EXCEPT !.alive = FALSE] : r \in ovRequests}
    /\ ovFocus' = "30d" /\ ovData' = NoOverlayData /\ ovLoading' = FALSE
    /\ ovErr' = Null /\ ovSelectedMatchId' = Null
    /\ ovFetchDue' = FALSE /\ ovResetDue' = FALSE
    /\ UNCHANGED <<ovSymbol, ovNextId>>
    /\ UNCHANGED overlayFrame

\* The hook is not in use.
OverlayIdle ==
    /\ ovMounted = FALSE
    /\ ovSymbol = "BTC"
    /\ ovFocus = "30d"
    /\ ovData = NoOverlayData
    /\ ovLoading = FALSE
    /\ ovErr = Null
    /\ ovSelectedMatchId = Null
    /\ ovRequests = {}
    /\ ovNextId = 1
    /\ ovFetchDue = FALSE
    /\ ovResetDue = FALSE

OverlayNext ==
    \/ OverlayRunEffects
    \/ \E f \in OverlayFocusSamples : OverlayChangeFocus(f)
    \/ \E id \in {"m1", "m2", "m3"} : SelectMatch(id)
    \/ \E idx \in 0..2 : SetMatchIndex(idx)
    \/ \E r \in ovRequests, json \in OverlayDataSamples : OverlayResolve(r, json)
    \/ \E r \in ovRequests, m \in OverlayFailureMessages : OverlayReject(r, m)
    \/ OverlayUnmount

---------------------------------------------------------------------------
(* ForwardPerformanceCompact and StrategySummary: fetch effects *)

\* How many fetches each of the two components issues in a behaviour.
MaxSectionLoads == 3

\* The props the fetch effect of ForwardPerformanceCompact depends on.
FpInputs(symbol, preset, horizon, execution) ==
    [symbol |-> symbol, mode |-> preset, horizon |-> horizon, execution |-> execution]

FpInputSamples ==
    { FpInputs("BTC", "balanced", 7, "ACTIVE"),
      FpInputs("BTC", "balanced", 14, "ACTIVE"),
      FpInputs("BTC", "aggressive", 7, "SHADOW") }

\* What a forward-equity fetch ends with: a body, a body with an error field,
\* a response that is not ok, a rejected fetch.
FpOutcomes == {"ok", "jsonError", "http", "network"}

NoSectionData == [present |-> FALSE, inputs |-> << >>]
\* The body of a response, by the inputs of the request it answers.
SectionData(inputs) == [present |-> TRUE, inputs |-> inputs]

FpInit ==
    /\ fpMounted = TRUE
    /\ fpInputs = FpInputs("BTC", "balanced", 7, "ACTIVE")
    /\ fpData = NoSectionData
    /\ fpLoading = FALSE
    /\ fpError = Null
    /\ fpRequests = {}
    /\ fpNextId = 1

\* ForwardPerformanceCompact is not rendered.
FpIdle ==
    /\ fpMounted = FALSE
    /\ fpInputs = FpInputs("BTC", "balanced", 7, "ACTIVE")
    /\ fpData = NoSectionData
    /\ fpLoading = FALSE
    /\ fpError = Null
    /\ fpRequests = {}
    /\ fpNextId = 1

\* fetchData up to its await: setLoading(true), setError(null), the fetch;
\* before it, the cleanup of the previous effect sets cancelled and aborts.
FpFetchData(inputs) ==
    /\ fpNextId <= MaxSectionLoads
    /\ fpRequests' = {[r EXCEPT !.cancelled = TRUE] : r \in fpRequests}
                       \cup {[id |-> fpNextId, inputs |-> inputs, cancelled |-> FALSE]}
    /\ fpNextId' = fpNextId + 1
    /\ fpLoading' = TRUE
    /\ fpError' = Null
    /\ UNCHANGED fpData

\* The effect of the first commit.
FpMount ==
    /\ fpMounted
    /\ fpNextId = 1
    /\ FpFetchData(fpInputs)
    /\ UNCHANGED <<fpMounted, fpInputs>>
    /\ UNCHANGED <<ssMounted, ssInputs, ssData, ssLoading, ssRequests, ssNextId>>
    /\ UNCHANGED sectionFrame

\* The parent passes other props: cleanup, then the effect again.
FpChangeInputs(inputs) ==
    /\ fpMounted
    /\ fpNextId > 1
    /\ inputs # fpInputs
    /\ fpInputs' = inputs
    /\ FpFetchData(inputs)
    /\ UNCHANGED fpMounted
    /\ UNCHANGED <<ssMounted, ssInputs, ssData, ssLoading, ssRequests, ssNextId>>
    /\ UNCHANGED sectionFrame

\* A settle that wrote whatever the cancelled flag says, for comparison.
FpSettleUnguarded(r, outcome) ==
    /\ fpRequests' = fpRequests \ {r}
    /\ fpData' = IF outcome = "ok" THEN SectionData(r.inputs)
                 ELSE IF outcome = "network" THEN fpData ELSE NoSectionData
    /\ fpError' = CASE outcome = "ok" -> Null
                    [] outcome = "jsonError" -> "error"
                    [] outcome = "http" -> "HTTP 500"
                    [] OTHER -> "Failed to fetch"
    /\ fpLoading' = FALSE
    /\ UNCHANGED <<fpMounted, fpInputs, fpNextId>>
    /\ UNCHANGED <<ssMounted, ssInputs, ssData, ssLoading, ssRequests, ssNextId>>
    /\ UNCHANGED sectionFrame

\* The fetch of r ends.  Cancelled (its fetch was aborted with it): every
\* branch returns before a write and finally skips setLoading.  Else: a body
\* is shown, a body with an error or a response that is not ok sets the error
\* and clears data, a rejected fetch sets the error; finally clears loading.
FpSettle(r, outcome) ==
    /\ fpRequests' = fpRequests \ {r}
    /\ IF r.cancelled
       THEN UNCHANGED <<fpData, fpError, fpLoading>>
       ELSE /\ fpData' = IF outcome = "ok" THEN SectionData(r.inputs)
                         ELSE IF outcome = "network" THEN fpData ELSE NoSectionData
            /\ fpError' = CASE outcome = "ok" -> Null
                            [] outcome = "jsonError" -> "error"
                            [] outcome = "http" -> "HTTP 500"
                            [] OTHER -> "Failed to fetch"
            /\ fpLoading' = FALSE
    /\ UNCHANGED <<fpMounted, fpInputs, fpNextId>>
    /\ UNCHANGED <<ssMounted, ssInputs, ssData, ssLoading, ssRequests, ssNextId>>
    /\ UNCHANGED sectionFrame

\* The component unmounts: the cleanup cancels and aborts; React discards the state.
FpUnmount ==
    /\ fpMounted
    /\ fpNextId > 1
    /\ fpMounted' = FALSE
    /\ fpRequests' = {[r EXCEPT !.cancelled = TRUE] : r \in fpRequests}
    /\ fpData' = NoSectionData /\ fpLoading' = FALSE /\ fpError' = Null
    /\ UNCHANGED <<fpInputs, fpNextId>>
    /\ UNCHANGED <<ssMounted, ssInputs, ssData, ssLoading, ssRequests, ssNextId>>
    /\ UNCHANGED sectionFrame

FpNext ==
    \/ FpMount
    \/ \E i \in FpInputSamples : FpChangeInputs(i)
    \/ \E r \in fpRequests, o \in FpOutcomes : FpSettle(r, o)
    \/ FpUnmount

\* The props the fetch effect of StrategySummary depends on.
SsInputs(symbol, preset) == [symbol |-> symbol, mode |-> preset]

SsInputSamples ==
    {SsInputs("BTC", "balanced"), SsInputs("BTC", "aggressive"), SsInputs("SPX", "balanced")}

\* What a strategy fetch ends with: a body, a response that is not ok, a
\* rejected fetch.
SsOutcomes == {"ok", "http", "network"}

SsInit ==
    /\ ssMounted = TRUE
    /\ ssInputs = SsInputs("BTC", "balanced")
    /\ ssData = NoSectionData
    /\ ssLoading = TRUE
    /\ ssRequests = {}
    /\ ssNextId = 1

\* StrategySummary is not rendered.
SsIdle ==
    /\ ssMounted = FALSE
    /\ ssInputs = SsInputs("BTC", "balanced")
    /\ ssData = NoSectionData
    /\ ssLoading = TRUE
    /\ ssRequests = {}
    /\ ssNextId = 1

\* fetchStrategy up to its await: setLoading(true) and the fetch; before it,
\* the cleanup of the previous effect sets cancelled.
FetchStrategy(inputs) ==
    /\ ssNextId <= MaxSectionLoads
    /\ ssRequests' = {[r EXCEPT !.cancelled = TRUE] : r \in ssRequests}
                       \cup {[id |-> ssNextId, inputs |-> inputs, cancelled |-> FALSE]}
    /\ ssNextId' = ssNextId + 1
    /\ ssLoading' = TRUE
    /\ UNCHANGED ssData

\* The effect of the first commit.
SsMount ==
    /\ ssMounted
    /\ ssNextId = 1
    /\ FetchStrategy(ssInputs)
    /\ UNCHANGED <<ssMounted, ssInputs>>
    /\ UNCHANGED <<fpMounted, fpInputs, fpData, fpLoading, fpError, fpRequests, fpNextId>>
    /\ UNCHANGED sectionFrame

\* The parent passes another symbol or mode: cleanup, then the effect again.
SsChangeInputs(inputs) ==
    /\ ssMounted
    /\ ssNextId > 1
    /\ inputs # ssInputs
    /\ ssInputs' = inputs
    /\ FetchStrategy(inputs)
    /\ UNCHANGED ssMounted
    /\ UNCHANGED <<fpMounted, fpInputs, fpData, fpLoading, fpError, fpRequests, fpNextId>>
    /\ UNCHANGED sectionFrame

\* The fetch of r ends.  Cancelled: return before any write, finally skips
\* setLoading.  Else a body is shown, a response that is not ok clears data,
\* a rejected fetch is logged; loading is cleared.
SsSettle(r, outcome) ==
    /\ ssRequests' = ssRequests \ {r}
    /\ IF r.cancelled
       THEN UNCHANGED <<ssData, ssLoading>>
       ELSE /\ ssData' = IF outcome = "ok" THEN SectionData(r.inputs)
                         ELSE IF outcome = "http" THEN NoSectionData ELSE ssData
            /\ ssLoading' = FALSE
    /\ UNCHANGED <<ssMounted, ssInputs, ssNextId>>
    /\ UNCHANGED <<fpMounted, fpInputs, fpData, fpLoading, fpError, fpRequests, fpNextId>>
    /\ UNCHANGED sectionFrame

\* The component unmounts: the cleanup sets cancelled; React discards the state.
SsUnmount ==
    /\ ssMounted
    /\ ssNextId > 1
    /\ ssMounted' = FALSE
    /\ ssRequests' = {[r EXCEPT !.cancelled = TRUE] : r \in ssRequests}
    /\ ssData' = NoSectionData /\ ssLoading' = TRUE
    /\ UNCHANGED <<ssInputs, ssNextId>>
    /\ UNCHANGED <<fpMounted, fpInputs, fpData, fpLoading, fpError, fpRequests, fpNextId>>
    /\ UNCHANGED sectionFrame

SsNext ==
    \/ SsMount
    \/ \E i \in SsInputSamples : SsChangeInputs(i)
    \/ \E r \in ssRequests, o \in SsOutcomes : SsSettle(r, o)
    \/ SsUnmount

\* One of the two components is rendered.
SectionsInit == (FpInit /\ SsIdle) \/ (FpIdle /\ SsInit)

SectionsIdle == FpIdle /\ SsIdle

SectionsNext == FpNext \/ SsNext

---------------------------------------------------------------------------
(* Specifications: one per subsystem, the others at rest *)

InitConsensus == ConsensusInit /\ RoutesIdle /\ RiskBoxIdle /\ HookIdle /\ ChartIdle /\ AgreementIdle /\ OverlayIdle /\ SectionsIdle
SpecConsensus == InitConsensus /\ [][ConsensusNext]_vars

InitRoutes == RoutesInit /\ ConsensusIdle /\ RiskBoxIdle /\ HookIdle /\ ChartIdle /\ AgreementIdle /\ OverlayIdle /\ SectionsIdle
SpecRoutes == InitRoutes /\ [][RoutesNext]_vars

InitRiskBox == RiskBoxInit /\ ConsensusIdle /\ RoutesIdle /\ HookIdle /\ ChartIdle /\ AgreementIdle /\ OverlayIdle /\ SectionsIdle
SpecRiskBox == InitRiskBox /\ [][RiskBoxNext]_vars

InitHook == HookInit /\ ConsensusIdle /\ RoutesIdle /\ RiskBoxIdle /\ ChartIdle /\ AgreementIdle /\ OverlayIdle /\ SectionsIdle
SpecHook == InitHook /\ [][HookNext]_vars

InitChart == ChartInit /\ ConsensusIdle /\ RoutesIdle /\ RiskBoxIdle /\ HookIdle /\ AgreementIdle /\ OverlayIdle /\ SectionsIdle
SpecChart == InitChart /\ [][ChartNext]_vars

InitAgreement == AgreementInit /\ RoutesIdle /\ RiskBoxIdle /\ HookIdle /\ ChartIdle /\ ConsensusIdle /\ OverlayIdle /\ SectionsIdle
SpecAgreement == InitAgreement /\ [][AgreementNext]_vars

InitOverlay == OverlayInit /\ RoutesIdle /\ RiskBoxIdle /\ HookIdle /\ ChartIdle /\ AgreementIdle /\ ConsensusIdle /\ SectionsIdle
SpecOverlay == InitOverlay /\ [][OverlayNext]_vars

InitSections == SectionsInit /\ RoutesIdle /\ RiskBoxIdle /\ HookIdle /\ ChartIdle /\ AgreementIdle /\ OverlayIdle /\ ConsensusIdle
SpecSections == InitSections /\ [][SectionsNext]_vars

\* The fetch effects guarded by a cancelled or alive flag, one component
\* rendered at a time: ForwardPerformanceCompact, StrategySummary,
\* useFractalOverlay, or FractalHybridChart with its chart fetch.
ChartFetchNext ==
    \/ ChartMount
    \/ \E c \in ChartSamples : ChartResolve(c)
    \/ ChartReject
    \/ \E s \in SymbolSamples : ChartChangeSymbol(s)
    \/ ChartStaleSettles
    \/ ChartUnmount

InitFetchEffects ==
    /\ ConsensusIdle /\ RoutesIdle /\ RiskBoxIdle /\ HookIdle /\ AgreementIdle
    /\ \/ FpInit /\ SsIdle /\ OverlayIdle /\ ChartIdle
       \/ FpIdle /\ SsInit /\ OverlayIdle /\ ChartIdle
       \/ FpIdle /\ SsIdle /\ OverlayInit /\ ChartIdle
       \/ FpIdle /\ SsIdle /\ OverlayIdle /\ ChartInit

FetchEffectsNext == FpNext \/ SsNext \/ OverlayNext \/ ChartFetchNext

SpecFetchEffects == InitFetchEffects /\ [][FetchEffectsNext]_vars

---------------------------------------------------------------------------
(* Properties of the consensus query *)

\* What the model is given: the outcome of each horizon's build.
Evaluated == {i \in HorizonIdx : cOutcome[i].ok}
Failed == HorizonIdx \ Evaluated
BuiltLong == {i \in Evaluated : cOutcome[i].medianReturn > 200}
BuiltShort == {i \in Evaluated : cOutcome[i].medianReturn < -200}
BuiltHold == Evaluated \ (BuiltLong \cup BuiltShort)

BreakdownCount(act) ==
    Cardinality({k \in DOMAIN cResponse.horizonBreakdown :
                    cResponse.horizonBreakdown[k].action = act})

\* C1: the consensus action is LONG only if at least 3 of the four horizon
\* actions are LONG, SHORT only if at least 3 are SHORT, and HOLD in every
\* other case.
C1_QuorumOfThree ==
    cPc = "done" =>
        /\ cResponse.action \in {"LONG", "SHORT", "HOLD"}
        /\ cResponse.action = "LONG" => BreakdownCount("LONG") >= 3
        /\ cResponse.action = "SHORT" => BreakdownCount("SHORT") >= 3
        /\ cResponse.action = "HOLD" <=>
              (BreakdownCount("LONG") < 3 /\ BreakdownCount("SHORT") < 3)

\* Two horizons agree on LONG, which is no quorum: the answer is HOLD.
C1_Witness ==
    /\ cPc = "done"
    /\ BreakdownCount("LONG") = 2
    /\ BreakdownCount("SHORT") = 1
    /\ cResponse.action = "HOLD"

C4_DeadBand ==
    \A i \in Evaluated \cap cTaskDone \cap DOMAIN results :
        LET a == results[i].action
            m == cOutcome[i].medianReturn
        IN  /\ a \in {"LONG", "SHORT", "HOLD"}
            /\ a = "LONG" <=> m > 200
            /\ a = "SHORT" <=> m < -200
            /\ a = "HOLD" <=> (m >= -200 /\ m <= 200)

\* Builds at exactly +2% and exactly -2% have settled as HOLD.
C4_Witness ==
    \E i, j \in Evaluated \cap cTaskDone :
        /\ cOutcome[i].medianReturn = 200 /\ results[i].action = "HOLD"
        /\ cOutcome[j].medianReturn = -200 /\ results[j].action = "HOLD"
        /\ \E k \in Evaluated \cap cTaskDone : results[k].action = "LONG"

\* The entry the handler returns for horizon i, from the build's outcome alone.
C5_EntryOf(i) ==
    IF cOutcome[i].ok
    THEN [ horizon |-> horizons[i],
           medianReturn |-> cOutcome[i].medianReturn,
           hitRate |-> cOutcome[i].hitRate,
           action |-> IF i \in BuiltLong THEN "LONG"
                      ELSE IF i \in BuiltShort THEN "SHORT" ELSE "HOLD",
           confidence |-> cOutcome[i].reliability ]
    ELSE [ horizon |-> horizons[i], medianReturn |-> 0, hitRate |-> 0,
           action |-> "HOLD", confidence |-> 0 ]

\* C5: the four builds run concurrently and, whatever the order in which they
\* complete or fail, the response is the same: the action, the strength and
\* the breakdown are determined by the per-horizon outcomes alone, and the
\* breakdown has exactly one entry per horizon in the order 7d, 14d, 30d, 90d.
C5_OrderIndependent ==
    cPc = "done" =>
        LET b      == cResponse.horizonBreakdown
            nLong  == Cardinality(BuiltLong)
            nShort == Cardinality(BuiltShort)
        IN  /\ Len(b) = 4
            /\ \A i \in 1..4 : b[i] = C5_EntryOf(i)
            /\ <<b[1].horizon, b[2].horizon, b[3].horizon, b[4].horizon>>
                  = <<"7d", "14d", "30d", "90d">>
            /\ cResponse.action = IF nLong >= 3 THEN "LONG"
                                  ELSE IF nShort >= 3 THEN "SHORT" ELSE "HOLD"
            /\ cResponse.strength.num = Max2(Max2(nLong, nShort), 4 - nLong - nShort)

\* The builds completed in the reverse of the horizon order, with different
\* outcomes per horizon.
C5_Witness ==
    /\ cPc = "done"
    /\ cOrder = <<4, 3, 2, 1>>
    /\ cOutcome[1] # cOutcome[4]
    /\ cResponse.horizonBreakdown[1].horizon = "7d"

---------------------------------------------------------------------------
(* Properties of the focus-pack, replay, hybrid and strategy queries *)

StrategyAnswered == rPc = "done" /\ rReq.route = "strategy" /\ rReply.ok

C9_SizeIsNumberInUnitInterval ==
    StrategyAnswered =>
        /\ ~rReply.positionSize.nan
        /\ rReply.positionSize.v >= 0
        /\ rReply.positionSize.v <= 100
        /\ rReply.preset = "CONSERVATIVE" =>
              rReply.positionSize.v = Min2(100, (adaptSpxToFractal(rBuild).sizeMultiplier * 5) \div 10)
        /\ rReply.preset = "BALANCED" =>
              rReply.positionSize.v = Min2(100, adaptSpxToFractal(rBuild).sizeMultiplier)
        /\ rReply.preset = "AGGRESSIVE" =>
              rReply.positionSize.v = Min2(100, (adaptSpxToFractal(rBuild).sizeMultiplier * 15) \div 10)

\* C10: on the focus-pack, replay, hybrid and strategy routes, a request whose
\* focus (after the default '30d' for a missing or empty parameter) is not one
\* of the supported horizons never invokes buildSpxFocusPack and is answered
\* with status 400 and ok = false.
C10_InvalidHorizonRejectedFirst ==
    FocusOf(rReq) \notin {"7d", "14d", "30d", "90d", "180d", "365d"} =>
        /\ rBuildCalls = 0
        /\ rPc \in {"received", "done"}
        /\ rPc = "done" => (rReply.status = 400 /\ ~rReply.ok)

\* The hybrid route has rejected focus=bogus without a build.
C10_Witness ==
    /\ rPc = "done"
    /\ rReq.route = "hybrid"
    /\ rReq.focus = "bogus"
    /\ rReply.status = 400
    /\ rBuildCalls = 0

---------------------------------------------------------------------------
(* Properties of RiskBox *)

\* The blocker set in force: sizing.blockers, plus CONSTITUTION_BLOCK when
\* constitution.status is BLOCK, plus DRIFT_CRITICAL when driftStatus is CRITICAL.
EffectiveBlockers ==
    {rbProps.sizing.blockers[k] : k \in DOMAIN rbProps.sizing.blockers}
      \cup (IF rbProps.constitution = "BLOCK" THEN {"CONSTITUTION_BLOCK"} ELSE {})
      \cup (IF rbProps.driftStatus = "CRITICAL" THEN {"DRIFT_CRITICAL"} ELSE {})

\* C7: whenever the effective blocker set is not empty, the position the box
\* presents is exactly 0, shown as NO TRADE: a positive recommended position is
\* never shown together with an active blocker.
C7_BlockedShowsNoTrade ==
    (EffectiveBlockers # {} /\ rbView.sizingShown) =>
        /\ rbView.position.text = "NO TRADE"
        /\ rbView.position.percent = 0

---------------------------------------------------------------------------
(* Properties of useFocusPack *)

\* C6: whenever fetchFocusPack is invoked while an earlier request of the hook
\* is in flight, the earlier request is aborted, and its response never writes
\* data, error or the cache: only the most recently issued request commits a
\* result (last requested wins, never last completed).
C6_LastRequestedWins ==
    /\ \A r \in requests : r.id # abortController => r.aborted
    /\ ~staleCommit
    /\ \A k \in DOMAIN cache : cache[k].key = k /\ cache[k].req <= abortController

\* A third request superseded the second while it was in flight: the second
\* is aborted and has not settled yet, the third is in flight, and what is
\* shown is still the payload the first request committed.
C6_Witness ==
    /\ \E r \in requests : r.id = 2 /\ r.aborted
    /\ \E r \in requests : r.id = 3 /\ ~r.aborted
    /\ abortController = 3
    /\ data.req = 1
    /\ loading
    /\ ~staleCommit

---------------------------------------------------------------------------
(* Properties of the consensus query: failures *)

\* The horizons whose build failed for lack of historical data.
FailedNoData ==
    {i \in Failed : IncludesInsufficientData(cOutcome[i].error)}

\* C11: when buildSpxFocusPack fails for lack of historical data, the
\* consensus route that invoked it answers with an error (ok = false) and never
\* with ok = true carrying zeroed content for that horizon.
C11_NoDataSurfaced ==
    (cPc = "done" /\ FailedNoData # {}) => ~cResponse.ok

\* The entry of a built horizon, from that horizon's pack alone.
BuiltEntry(i) ==
    [ horizon |-> horizons[i],
      medianReturn |-> cOutcome[i].medianReturn,
      hitRate |-> cOutcome[i].hitRate,
      action |-> IF cOutcome[i].medianReturn > 200 THEN "LONG"
                 ELSE IF cOutcome[i].medianReturn < -200 THEN "SHORT"
                 ELSE "HOLD",
      confidence |-> cOutcome[i].reliability ]

\* C12: in the consensus query a failed build for one horizon does not affect
\* the others: the entry of every built horizon is what its own pack gives,
\* whichever other horizons failed and whenever they failed, and the request
\* completes with an ok response carrying one entry per horizon.
C12_FailureIsolated ==
    /\ \A i \in Evaluated \cap cTaskDone : results[i] = BuiltEntry(i)
    /\ (cPc = "building" /\ cTaskDone = HorizonIdx) => ENABLED ConsensusRespond
    /\ cPc = "done" =>
          /\ cResponse.ok
          /\ Len(cResponse.horizonBreakdown) = 4
          /\ \A i \in Evaluated : cResponse.horizonBreakdown[i] = BuiltEntry(i)

\* The 14d build failed first; the three others were built afterwards, vote
\* LONG with their own figures, and the request was answered.
C12_Witness ==
    /\ cPc = "done"
    /\ Failed = {2}
    /\ cOrder[1] = 2
    /\ cResponse.ok
    /\ \A i \in {1, 3, 4} :
          /\ cResponse.horizonBreakdown[i].action = "LONG"
          /\ cResponse.horizonBreakdown[i].confidence = 70


\* The request a step issues, if it issues one: fetchFocusPack ran.
IssuedIn(reqsAfter, id) == {r \in reqsAfter : r.id = id}

\* The live request a step settles, if it settles one.
SettledLive(reqsBefore, reqsAfter) ==
    {r \in reqsBefore : ~r.aborted /\ \A q \in reqsAfter : q.id # r.id}

\* fetchFocusPack ran in this step: for an unfiltered signature that has a cache
\* entry, data is that entry at once; a fresh request for the signature is in
\* flight and the cache is as it was.
C13_FetchStep ==
    nextId' = nextId + 1 =>
        /\ cache' = cache
        /\ \E r \in IssuedIn(requests', nextId) :
              /\ ~r.aborted
              /\ abortController' = r.id
              /\ (r.key[3] = "all" /\ r.key \in DOMAIN cache) => data' = cache[r.key]

\* A request was answered successfully in this step: its payload is now both
\* the cache entry of the request's own signature and data; no other cache
\* entry changed.
C13_SuccessStep ==
    \A r \in SettledLive(requests, requests') :
        (hMounted' /\ error' = Null) =>
            /\ r.key \in DOMAIN cache'
            /\ cache'[r.key].req = r.id
            /\ cache'[r.key].key = r.key
            /\ data' = cache'[r.key]
            /\ \A k \in DOMAIN cache : k # r.key => (k \in DOMAIN cache' /\ cache'[k] = cache[k])

\* The cache changes only when a response is accepted (or the hook is discarded).
C13_CacheWrittenByResponseOnly ==
    (hMounted' /\ cache' # cache) =>
        \E r \in SettledLive(requests, requests') : error' = Null

\* C13: useFocusPack caches by request signature (symbol, focus, phaseId, asOf):
\* fetchFocusPack for an unfiltered signature with a cache entry sets data to
\* the cached payload before any response and still issues a fresh request; the
\* successful response of a request replaces the cache entry of that request's
\* signature and data; a cache entry is only ever written with a response to a
\* request for its own signature.
C13_CacheBySignature ==
    /\ [](\A k \in DOMAIN cache : cache[k].key = k)
    /\ [][C13_FetchStep /\ C13_SuccessStep /\ C13_CacheWrittenByResponseOnly]_vars

\* The payload that request 1 fetched is shown again from the cache, after
\* request 2 had shown another signature's payload, while request 3, for the
\* signature of request 1, is in flight.
C13_Witness ==
    /\ data.req = 1
    /\ data.key[3] = "all"
    /\ \E k \in DOMAIN cache : cache[k].req = 2 /\ k # data.key
    /\ \E r \in requests : r.id = 3 /\ ~r.aborted /\ r.key = data.key
    /\ loading

\* A request was answered with a failure in this step.
FailedLive == {r \in SettledLive(requests, requests') : hMounted' /\ error' # Null}

\* C14: after a request for signature k fails with a non-abort error, error
\* holds the failure message and data is the last good payload cached for k if
\* there is one and null otherwise: data never keeps a payload of another
\* signature after the failure.
C14_FailureShowsOwnCacheOrNull ==
    [][\A r \in FailedLive :
          /\ error' \in FailureMessages
          /\ data' = IF r.key \in DOMAIN cache THEN cache[r.key] ELSE NoPayload
          /\ data' # NoPayload => data'.key = r.key]_vars


---------------------------------------------------------------------------
(* Properties of transformSpxToFocusPack and FractalHybridChart *)

\* The SPX result carries no historical matches.
NoTopMatches(spxData) == ~spxData.hasTopMatches \/ spxData.topMatches = << >>

\* C15: when the SPX result carries no historical matches, the focus pack that
\* transformSpxToFocusPack produces has an empty overlay.matches and empty
\* distributionSeries sequences, and its overlay stats are undefined rather
\* than defaulted numbers; the chart's forecast built from that pack does not
\* substitute default percentile values for the missing distribution.
C15_NoMatchesNoDefaults ==
    \A d \in SpxDataSamples :
        (chSymbol = "SPX" /\ NoTopMatches(d) /\ focusPack = transformSpxToFocusPack(d)) =>
            LET ds == focusPack.distributionSeries
                f  == Forecast(chart, focusPack)
            IN  /\ focusPack.matches = << >>
                /\ ds.p10 = << >> /\ ds.p25 = << >> /\ ds.p50 = << >>
                /\ ds.p75 = << >> /\ ds.p90 = << >>
                /\ ~focusPack.stats.avgSimilarity.defined
                /\ ~focusPack.stats.medianReturn.defined
                /\ ~focusPack.stats.hitRate.defined
                /\ f.present =>
                      \A q \in {"p10", "p25", "p50", "p75", "p90"} :
                          ~f.distribution7d[q].defaulted


---------------------------------------------------------------------------
(* Properties of AgreementSection *)

\* C16: for every pair of numbers (rmse, corr) the level shown is Strong iff
\* rmse <= 5 and corr >= 0.7; Moderate iff it is not Strong and rmse <= 15 and
\* corr >= 0.4; Weak otherwise; exactly one level results, and the full and
\* the compact variant show the same level for the same divergence.
C16_AgreementLevel ==
    agShown.rendered =>
        LET rmse == agDivergence.rmse
            corr == agDivergence.corr
            strong   == rmse.v <= 50 /\ corr.v >= 70
            moderate == ~strong /\ rmse.v <= 150 /\ corr.v >= 40
        IN  /\ agShown.full \in {"Strong", "Moderate", "Weak"}
            /\ agShown.compact = agShown.full
            /\ (rmse.kind = "number" /\ corr.kind = "number") =>
                  /\ agShown.full = "Strong" <=> strong
                  /\ agShown.full = "Moderate" <=> moderate
                  /\ agShown.full = "Weak" <=> (~strong /\ ~moderate)

\* Both variants show Strong at exactly rmse = 5 and corr = 0.7.
C16_Witness ==
    /\ agShown.rendered
    /\ agDivergence = [rmse |-> JsNumber(50), corr |-> JsNumber(70)]
    /\ agShown.full = "Strong"
    /\ agShown.compact = "Strong"


---------------------------------------------------------------------------
(* Properties of RiskBox: the risk level *)

\* The depth of the average max drawdown, in hundredths: the magnitude of
\* scenario.avgMaxDD, 0 when there is none.
DrawdownDepth ==
    IF ~rbProps.avgMaxDD.defined THEN 0
    ELSE IF rbProps.avgMaxDD.v < 0 THEN -rbProps.avgMaxDD.v ELSE rbProps.avgMaxDD.v

\* C17: the risk level is a function of the volatility regime and the
\* magnitude of avgMaxDD only: CRISIS iff the regime is CRISIS or the average
\* max drawdown is deeper than 25%; otherwise ELEVATED iff the regime is HIGH
\* or EXPANSION or the drawdown is deeper than 15%; otherwise NORMAL --
\* whatever the sizing blockers, sizing mode, constitution and drift status.
C17_RiskLevelByMagnitude ==
    LET crisis   == rbProps.volRegime = "CRISIS" \/ DrawdownDepth > 25
        elevated == ~crisis /\ (rbProps.volRegime \in {"HIGH", "EXPANSION"}
                                  \/ DrawdownDepth > 15)
    IN  rbView.riskLevel = IF crisis THEN "CRISIS"
                           ELSE IF elevated THEN "ELEVATED" ELSE "NORMAL"


---------------------------------------------------------------------------
(* Properties of the replay query *)

\* The index a matchIndex parameter designates, -1 if it designates none
\* (negative or not a number); a missing or empty parameter designates 0.
DesignatedIndex(param) ==
    CASE param \in {Absent, "", "0"} -> 0
      [] param = "1" -> 1
      [] param = "7" -> 7
      [] OTHER -> -1

ReplayAnswered ==
    rPc = "done" /\ rReq.route = "replay" /\ rBuild.ok /\ rReply.status # 400

SupportedHorizonDays ==
    [f \in {"7d", "14d", "30d", "90d", "180d", "365d"} |->
        CASE f = "7d" -> 7 [] f = "14d" -> 14 [] f = "30d" -> 30
          [] f = "90d" -> 90 [] f = "180d" -> 180 [] f = "365d" -> 365]

\* C19: for every focus horizon, the overlay request issued by
\* useFractalOverlay asks for a match window length within [30, 90]: the
\* horizon when 30 <= horizon <= 90, 30 below it and 90 above it; its
\* aftermathDays and displayWindow are the horizon itself.
C19_OverlayWindowClamped ==
    \A r \in ovRequests :
        r.focus \in DOMAIN SupportedHorizonDays =>
            LET h == SupportedHorizonDays[r.focus] IN
            /\ r.url.horizon = h
            /\ r.url.windowLen \in 30..90
            /\ (30 <= h /\ h <= 90) => r.url.windowLen = h
            /\ h < 30 => r.url.windowLen = 30
            /\ h > 90 => r.url.windowLen = 90
            /\ r.url.aftermathDays = h
            /\ r.url.displayWindow = h

\* Requests are in flight for a horizon above the range and for one below it.
C19_Witness ==
    /\ \E r \in ovRequests :
          r.focus = "365d" /\ r.url.windowLen = 90 /\ r.url.aftermathDays = 365
    /\ \E r \in ovRequests :
          r.focus = "7d" /\ r.url.windowLen = 30 /\ r.url.displayWindow = 7


\* The chart has drawn its candles for a focus pack and no replay-pack fetch
\* is in flight.
ChartSettled ==
    /\ chMounted
    /\ ~chartLoading
    /\ HasCandles(chart)
    /\ focusPack.present
    /\ replayRequests = {}

\* C20: in FractalHybridChart the replay shown is the primary match (the
\* backend's primarySelection.primaryMatch, else the first element of
\* overlay.matches) unless the user has selected a match, in which case it
\* is the replay pack of the user-selected match id; with no user selection
\* the primary match is the one shown and the one marked selected in the picker.
C20_ReplayShownIsPrimaryOrSelected ==
    ChartSettled =>
        LET replay == PrimaryMatch(chart, focusPack, customReplayPack)
            picker == Picker(chart, chartLoading, focusPack, selectedMatchId)
            primary == BackendPrimary(focusPack)
        IN  /\ selectedMatchId = Null =>
                /\ replay.shown => replay.id = primary.id
                /\ Len(primary.aftermathNormalized) > 0 => replay.shown
                /\ picker.shown => picker.selectedId = primary.id
            /\ selectedMatchId # Null =>
                /\ replay.shown
                /\ replay.id = selectedMatchId


\* C21: in FractalHybridChart, after any sequence of match selections and
\* replay responses, once no replay request is in flight the committed
\* customReplayPack, if any, is the pack of the most recently selected match
\* id: customReplayPack.matchId = selectedMatchId.
C21_CommittedPackIsOfLatestSelection ==
    (chMounted /\ replayRequests = {} /\ customReplayPack.present)
        => customReplayPack.matchId = selectedMatchId


\* The latest overlay load has completed successfully with at least one match.
OverlayLoaded ==
    /\ ovMounted
    /\ ~ovFetchDue
    /\ ~ovLoading
    /\ ovErr = Null
    /\ \A r \in ovRequests : ~r.alive
    /\ Len(ovData.matches) > 0

\* C22: in useFractalOverlay, whenever an overlay load has completed
\* successfully with at least one match and no newer load is pending,
\* selectedMatchId is the id of a match of the loaded data.
C22_SelectionIsALoadedMatch ==
    OverlayLoaded => \E k \in DOMAIN ovData.matches : ovData.matches[k] = ovSelectedMatchId


\* The request signature of the hook's current inputs and state.
Signature == CacheKey(hSymbol, hFocus, phaseId, asOf)

\* The renders and effects that follow an event have completed.
HookSettled == hMounted /\ ~effectDue

\* C23: in useFocusPack, when focus changes while a phase filter is active,
\* phaseId is reset to null, no response for a request combining the new
\* focus with the old phaseId is ever committed to data or the cache, and the
\* result committed is the one for the new focus without phase filter:
\* a change of focus makes the [focus] effect due and nothing else is handled
\* before it has run; when it has run phaseId is null; whatever is written to
\* data or the cache afterwards has the signature of the current focus and
\* phaseId; and with no request left and no error, data is that of the
\* current signature.
C23_FocusChangeDropsPhaseFilter ==
    /\ [](hMounted /\ focusEffectDue => effectDue)
    /\ []((HookSettled /\ requests = {} /\ error = Null) => data.key = Signature)
    /\ [][ /\ (hMounted' /\ hFocus' # hFocus) => focusEffectDue'
           /\ (hMounted' /\ focusEffectDue /\ ~focusEffectDue') => phaseId' = Null
           /\ (hMounted' /\ ~HookSettled') => (cache' = cache)
           /\ (hMounted' /\ HookSettled /\ HookSettled' /\ cache' # cache) =>
                  \A k \in DOMAIN cache' :
                      (k \notin DOMAIN cache \/ cache'[k] # cache[k]) => k = Signature'
           /\ (hMounted' /\ HookSettled' /\ data' # data /\ data' # NoPayload) =>
                  data'.key = Signature' ]_vars

\* Right after a change of focus to 7d under the filter phase-1: the request
\* for 7d with phase-1 is aborted, phaseId is null and the request for 7d
\* without filter is the live one.
C23_Witness ==
    /\ HookSettled
    /\ hFocus = "7d"
    /\ phaseId = Null
    /\ \E a \in requests : a.aborted /\ a.key[2] = "7d" /\ a.key[3] = "phase-1"
    /\ \E b \in requests : ~b.aborted /\ b.key = Signature


\* C24: in useFocusPack, mode is 'simulation' exactly when an as-of date is
\* set and 'auto' exactly when it is not, in every state of the mounted hook.
C24_ModeFollowsAsOf ==
    hMounted => /\ mode \in {"auto", "simulation"}
                /\ (mode = "simulation") <=> (asOf # Null)


IsListed(blocker, list) == \E k \in DOMAIN list : list[k] = blocker

\* C25: in RiskBox, whenever constitution.status is BLOCK or driftStatus is
\* CRITICAL, the 'Trading Disabled' panel is shown and lists
\* CONSTITUTION_BLOCK respectively DRIFT_CRITICAL, whatever sizing.blockers
\* and sizing.mode are; and the panel is shown whenever sizing.mode is NO_TRADE.
C25_HardBlockersShowPanel ==
    /\ rbProps.constitution = "BLOCK" =>
          rbView.blockersShown /\ IsListed("CONSTITUTION_BLOCK", rbView.blockersList)
    /\ rbProps.driftStatus = "CRITICAL" =>
          rbView.blockersShown /\ IsListed("DRIFT_CRITICAL", rbView.blockersList)
    /\ (rbProps.sizing.present /\ rbProps.sizing.mode = "NO_TRADE") => rbView.blockersShown


\* The most recently issued request is still in flight.
LatestInFlight == \E r \in requests : r.id = abortController /\ ~r.aborted

\* C26: in useFocusPack, loading is true in every state in which the most
\* recently issued request is still in flight; the termination of an aborted,
\* superseded request never clears loading while its successor is pending.
C26_LoadingWhileLatestInFlight ==
    (hMounted /\ LatestInFlight) => loading


\* C27: in FractalHybridChart, after a focus change has reset the selection,
\* customReplayPack stays null until the user selects a match under the new
\* focus; a replay response requested under the previous focus and arriving
\* after the reset is never committed: with nothing selected there is no
\* custom pack, and a committed pack was requested under the current focus.
C27_NoStaleReplayAfterFocusReset ==
    chMounted =>
        /\ selectedMatchId = Null => ~customReplayPack.present
        /\ customReplayPack.present => customReplayPack.focus = chFocus


\* The requests of reqsBefore that ended in this step.
Ended(reqsBefore, reqsAfter) == {r \in reqsBefore : \A q \in reqsAfter : q.id # r.id}

\* C28: in each effect-driven fetch guarded by a cancelled/alive flag
\* (ForwardPerformanceCompact, StrategySummary, useFractalOverlay, the chart
\* fetch of FractalHybridChart), once the effect's inputs have changed or the
\* component has unmounted, the response or failure of the superseded request
\* never writes data, error or loading; every state write comes from the
\* request of the current inputs: a request whose flag is not cleared belongs
\* to the mounted component and its current inputs, and the end of a request
\* whose flag is cleared leaves the state as it is.
C28_SupersededNeverWrites ==
    /\ [](\A r \in fpRequests : ~r.cancelled => fpMounted /\ r.inputs = fpInputs)
    /\ [](\A r \in ssRequests : ~r.cancelled => ssMounted /\ r.inputs = ssInputs)
    /\ [](\A r \in ovRequests :
             r.alive => /\ ovMounted
                        /\ ~ovFetchDue => r.url = OverlayUrl(ovSymbol, focusToDays(ovFocus)))
    /\ []((alive \/ chartStale > 0) => chartFetch # "none")
    /\ []((alive /\ chartFetch = "pending") => chMounted)
    /\ [][ /\ \A r \in Ended(fpRequests, fpRequests') :
                r.cancelled => UNCHANGED <<fpData, fpError, fpLoading>>
           /\ \A r \in Ended(ssRequests, ssRequests') :
                r.cancelled => UNCHANGED <<ssData, ssLoading>>
           /\ \A r \in Ended(ovRequests, ovRequests') :
                ~r.alive => UNCHANGED <<ovData, ovErr, ovLoading, ovSelectedMatchId>>
           /\ chartStale' < chartStale => UNCHANGED <<chart, chartLoading>>
           /\ (chartFetch = "pending" /\ chartFetch' = "settled" /\ ~alive) =>
                UNCHANGED <<chart, chartLoading>> ]_vars

\* The superseded first request of ForwardPerformanceCompact has ended while
\* the request of the current props is still awaited, and loading is still set.
C28_Witness ==
    /\ fpMounted
    /\ fpNextId = 3
    /\ fpLoading
    /\ fpData = NoSectionData
    /\ \A r \in fpRequests : r.id = 2 /\ ~r.cancelled
    /\ fpRequests # {}

\* const activeDivergence = useMemo(...): the custom replay pack's divergence
\* when it has one, else the focus pack's.
ActiveDivergence(pack, custom) ==
    IF custom.present /\ custom.divergenceOf # ""
    THEN [shown |-> TRUE, from |-> "customReplayPack", of |-> custom.divergenceOf]
    ELSE IF pack.present /\ pack.divergenceOf # ""
    THEN [shown |-> TRUE, from |-> "focusPack", of |-> pack.divergenceOf]
    ELSE [shown |-> FALSE, from |-> "", of |-> ""]

\* HybridSummaryPanel is rendered once the chart has loaded with candles and
\* returns null without a forecast.
SummaryPanelShown ==
    /\ chMounted
    /\ ~chartLoading
    /\ HasCandles(chart)
    /\ Forecast(chart, focusPack).present

\* C29: the divergence metrics of the summary panel pertain to the replay
\* shown: with a custom replay pack they are that pack's own, and the focus
\* pack's divergence is shown only while the primary match is the replay shown.
\* Violated: a focus pack converted from the SPX response always carries a
\* divergence object while none of its matches has an aftermath, so the panel
\* shows divergence metrics next to "No replay data available".
C29_DivergenceIsOfReplayShown ==
    SummaryPanelShown =>
        LET replay     == PrimaryMatch(chart, focusPack, customReplayPack)
            divergence == ActiveDivergence(focusPack, customReplayPack)
        IN  divergence.shown =>
                /\ replay.shown
                /\ divergence.of = replay.id
                /\ customReplayPack.present => divergence.from = "customReplayPack"
                /\ divergence.from = "focusPack" => replay.id = PrimaryMatchId(focusPack)

\* The part of C29 that holds: whenever a replay is shown, the divergence
\* shown is the one computed against it.
C29_ShownReplayHasItsDivergence ==
    SummaryPanelShown =>
        LET replay     == PrimaryMatch(chart, focusPack, customReplayPack)
            divergence == ActiveDivergence(focusPack, customReplayPack)
        IN  replay.shown =>
                /\ divergence.shown
                /\ divergence.of = replay.id
                /\ customReplayPack.present <=> divergence.from = "customReplayPack"

\* C30: the reported strength describes the reported action: strength equals
\* (the number of horizons whose action equals the consensus action) / 4, for
\* every combination of per-horizon actions, also when the consensus is HOLD.
\* Violated: the numerator is the largest of the three counts, and without a
\* quorum of three the action is HOLD whichever count is the largest.
C30_StrengthDescribesAction ==
    (cPc = "done" /\ cResponse.ok) =>
        LET s == cResponse.strength
        IN  s.num * 4 = CountAction(cResponse.horizonBreakdown, cResponse.action) * s.den

\* The part of C30 that holds: with a LONG or SHORT consensus, and with a
\* HOLD consensus whose HOLD count is the largest, the strength is the share
\* of horizons with the consensus action.
C30_StrengthOfQuorumAction ==
    (cPc = "done" /\ cResponse.ok) =>
        LET s     == cResponse.strength
            nSame == CountAction(cResponse.horizonBreakdown, cResponse.action)
            nLong  == CountAction(cResponse.horizonBreakdown, "LONG")
            nShort == CountAction(cResponse.horizonBreakdown, "SHORT")
        IN  (cResponse.action # "HOLD" \/ (nSame >= nLong /\ nSame >= nShort))
                => s.num * 4 = nSame * s.den

====
